---- MODULE Spec2Model ----
(***************************************************************************)
(* FluidSDK MCP server: the JSON-RPC dispatcher, the REST tool routes, the *)
(* x402 test routes and the tool implementations, as a state machine over  *)
(* a small number of concurrently processed HTTP requests.                 *)
(***************************************************************************)
EXTENDS Integers, Sequences, FiniteSets, TLC

(***************************************************************************)
(* Bounds of the model.                                                    *)
(***************************************************************************)
\* number of request slots that may be in flight at once in SpecPair
NumSlots == 2
\* number of distinct random draws handleWeather may see
MaxDraw == 2

Slots == 1..NumSlots

(***************************************************************************)
(* JavaScript values.  Every value has the same record shape so that TLC   *)
(* can compare any two of them: t is the type tag, n the numeric value,    *)
(* s the string value.                                                     *)
(***************************************************************************)
Undef == [t |-> "undefined", n |-> 0, d |-> 1, s |-> ""]
Null == [t |-> "null", n |-> 0, d |-> 1, s |-> ""]
Num(k) == [t |-> "number", n |-> k, d |-> 1, s |-> ""]
Str(str) == [t |-> "string", n |-> 0, d |-> 1, s |-> str]
NaN == [t |-> "NaN", n |-> 0, d |-> 1, s |-> ""]
\* +Infinity (n = 1) and -Infinity (n = -1)
Infinity(sign) == [t |-> "Infinity", n |-> sign, d |-> 1, s |-> ""]
\* a non-null object without own properties of interest
Obj == [t |-> "object", n |-> 0, d |-> 1, s |-> ""]

Abs(k) == IF k < 0 THEN -k ELSE k

RECURSIVE Gcd(_, _)
Gcd(a, b) == IF b = 0 THEN a ELSE Gcd(b, a % b)

\* the number p/q (q /= 0) in lowest terms with a positive denominator
Ratio(p, q) ==
    LET g == Gcd(Abs(p), Abs(q))
        sgn == IF q < 0 THEN -1 ELSE 1
    IN [t |-> "number", n |-> sgn * (p \div g), d |-> Abs(q) \div g, s |-> ""]

\* !v
Falsy(v) ==
    \/ v.t \in {"undefined", "null", "NaN"}
    \/ v.t = "number" /\ v.n = 0
    \/ v.t = "string" /\ v.s = ""

\* a === b
StrictEq(a, b) == a.t /= "NaN" /\ a = b

\* a || b
OrElse(a, b) == IF Falsy(a) THEN b ELSE a

Digit(k) ==
    CASE k = 0 -> "0" [] k = 1 -> "1" [] k = 2 -> "2" [] k = 3 -> "3"
      [] k = 4 -> "4" [] k = 5 -> "5" [] k = 6 -> "6" [] k = 7 -> "7"
      [] k = 8 -> "8" [] k = 9 -> "9"

RECURSIVE IntToStr(_)
IntToStr(k) ==
    IF k < 0 THEN "-" \o IntToStr(-k)
    ELSE IF k < 10 THEN Digit(k)
    ELSE IntToStr(k \div 10) \o Digit(k % 10)

\* `${v}` : template-literal conversion of a value to a string
ToStr(v) ==
    CASE v.t = "undefined" -> "undefined"
      [] v.t = "null" -> "null"
      [] v.t = "NaN" -> "NaN"
      [] v.t = "Infinity" -> IF v.n < 0 THEN "-Infinity" ELSE "Infinity"
      [] v.t = "number" ->
           IF v.d = 1 THEN IntToStr(v.n)
           ELSE IntToStr(v.n) \o "/" \o IntToStr(v.d)
      [] v.t = "string" -> v.s
      [] v.t = "object" -> "[object Object]"

(***************************************************************************)
(* Payment configuration (config/payment.config.ts).  A price is the       *)
(* string of the source, held as its sequence of characters.               *)
(***************************************************************************)
PAYMENT_CONFIG ==
    [calculate |-> <<"$", "0", ".", "1">>,
     weather   |-> <<"$", "0", ".", "2">>,
     echo      |-> <<"$", "0", ".", "5">>,
     timestamp |-> <<"$", "0", ".", "5">>,
     jsonRpc   |-> <<"$", "0", ".", "5">>]

\* decimals of the USDC asset
USDC_DECIMALS == 6

DigitVal(c) ==
    CASE c = "0" -> 0 [] c = "1" -> 1 [] c = "2" -> 2 [] c = "3" -> 3
      [] c = "4" -> 4 [] c = "5" -> 5 [] c = "6" -> 6 [] c = "7" -> 7
      [] c = "8" -> 8 [] c = "9" -> 9

RECURSIVE DigitsToInt(_)
DigitsToInt(ds) ==
    IF ds = <<>> THEN 0
    ELSE 10 * DigitsToInt(SubSeq(ds, 1, Len(ds) - 1)) + DigitVal(ds[Len(ds)])

RECURSIVE Pow10(_)
Pow10(k) == IF k = 0 THEN 1 ELSE 10 * Pow10(k - 1)

\* price.replace("$", "") : drops the first "$"
StripDollar(cs) ==
    IF \E i \in 1..Len(cs) : cs[i] = "$"
    THEN LET i == CHOOSE j \in 1..Len(cs) :
                     cs[j] = "$" /\ \A k \in 1..(j - 1) : cs[k] /= "$"
         IN SubSeq(cs, 1, i - 1) \o SubSeq(cs, i + 1, Len(cs))
    ELSE cs

\* parseUnits(text, decimals) : the decimal text as an integer number of
\* minor units
parseUnits(cs, decimals) ==
    LET dot == IF \E i \in 1..Len(cs) : cs[i] = "."
               THEN CHOOSE i \in 1..Len(cs) : cs[i] = "."
               ELSE Len(cs) + 1
        whole == SubSeq(cs, 1, dot - 1)
        frac == SubSeq(cs, dot + 1, Len(cs))
        kept == SubSeq(frac, 1, IF Len(frac) < decimals THEN Len(frac) ELSE decimals)
    IN DigitsToInt(whole) * Pow10(decimals)
         + DigitsToInt(kept) * Pow10(decimals - Len(kept))

\* the configured price of a route in minor units of the asset, as the
\* decimal string a challenge carries
PriceInMinorUnits(price) == IntToStr(parseUnits(StripDollar(price), USDC_DECIMALS))

(***************************************************************************)
(* MCPServer (server.ts): the tool implementations and callTool.           *)
(* A tool result is the text of its single content item:                   *)
(*   form  what the text is ("error", "calculate", "weather", "echo",      *)
(*         "timestamp"),                                                   *)
(*   s     the text itself when it is a plain string, for a calculation    *)
(*         the expression field,                                           *)
(*   v     the values of the JSON object that was stringified.             *)
(***************************************************************************)
NoText == [form |-> "none", s |-> "", v |-> <<>>]

\* the arguments object of a tool call; an absent property is Undef
NoArgs ==
    [operation |-> Undef, a |-> Undef, b |-> Undef, message |-> Undef,
     location |-> Undef, unit |-> Undef, format |-> Undef]

\* the characters of the numeric query-string literals the model uses
Chars(str) ==
    CASE str = "0" -> <<"0">>
      [] str = "5" -> <<"5">>
      [] str = "10" -> <<"1", "0">>
      [] str = "-3" -> <<"-", "3">>
      [] str = "abc" -> <<"a", "b", "c">>
      [] str = "7x" -> <<"7", "x">>
      [] OTHER -> <<>>

IsDigit(c) == c \in {"0", "1", "2", "3", "4", "5", "6", "7", "8", "9"}

\* the longest prefix of cs made of digits
RECURSIVE DigitPrefix(_)
DigitPrefix(cs) ==
    IF cs = <<>> \/ ~IsDigit(Head(cs)) THEN <<>>
    ELSE <<Head(cs)>> \o DigitPrefix(Tail(cs))

\* parseFloat(str) on integer literals: an optional sign, then the longest
\* run of digits; NaN when there is no digit
parseFloat(v) ==
    IF v.t = "number" THEN v
    ELSE IF v.t /= "string" THEN NaN
    ELSE LET cs == Chars(v.s)
             neg == cs /= <<>> /\ Head(cs) = "-"
             rest == IF cs /= <<>> /\ Head(cs) \in {"-", "+"} THEN Tail(cs) ELSE cs
             ds == DigitPrefix(rest)
         IN IF ds = <<>> THEN NaN
            ELSE Num((IF neg THEN -1 ELSE 1) * DigitsToInt(ds))

\* ToNumber(v), the coercion of the arithmetic operators
ToNumber(v) ==
    CASE v.t = "number" -> v
      [] v.t = "Infinity" -> v
      [] v.t = "null" -> Num(0)
      [] v.t = "string" ->
           IF v.s = "" THEN Num(0)
           ELSE LET cs == Chars(v.s)
                    rest == IF cs /= <<>> /\ Head(cs) \in {"-", "+"} THEN Tail(cs) ELSE cs
                IN IF rest /= <<>> /\ DigitPrefix(rest) = rest THEN parseFloat(v) ELSE NaN
      [] OTHER -> NaN

\* a + b
JsAdd(a, b) ==
    IF a.t \in {"string", "object"} \/ b.t \in {"string", "object"}
    THEN Str(ToStr(a) \o ToStr(b))
    ELSE LET x == ToNumber(a)
             y == ToNumber(b)
         IN IF x.t = "number" /\ y.t = "number"
            THEN Ratio(x.n * y.d + y.n * x.d, x.d * y.d)
            ELSE NaN

\* b - a
JsSub_Reversed(a, b) ==
    LET x == ToNumber(a)
        y == ToNumber(b)
    IN IF x.t = "number" /\ y.t = "number"
       THEN Ratio(y.n * x.d - x.n * y.d, x.d * y.d)
       ELSE NaN

\* a - b
JsSub(a, b) ==
    LET x == ToNumber(a)
        y == ToNumber(b)
    IN IF x.t = "number" /\ y.t = "number"
       THEN Ratio(x.n * y.d - y.n * x.d, x.d * y.d)
       ELSE NaN

\* a * b
JsMul(a, b) ==
    LET x == ToNumber(a)
        y == ToNumber(b)
    IN IF x.t = "number" /\ y.t = "number"
       THEN Ratio(x.n * y.n, x.d * y.d)
       ELSE NaN

\* a / b
JsDiv(a, b) ==
    LET x == ToNumber(a)
        y == ToNumber(b)
    IN IF x.t = "number" /\ y.t = "number"
       THEN IF y.n = 0
            THEN IF x.n = 0 THEN NaN ELSE Infinity(IF x.n < 0 THEN -1 ELSE 1)
            ELSE Ratio(x.n * y.d, x.d * y.n)
       ELSE NaN

handleCalculate(args) ==
    LET operation == args.operation
        a == args.a
        b == args.b
        known == operation.t = "string"
                   /\ operation.s \in {"add", "subtract", "multiply", "divide"}
        result == CASE operation.s = "add" -> JsAdd(a, b)
                    [] operation.s = "subtract" -> JsSub(a, b)
                    [] operation.s = "multiply" -> JsMul(a, b)
                    [] operation.s = "divide" -> JsDiv(a, b)
    IN IF ~known
       THEN [form |-> "error",
             s |-> "Error: Unknown operation " \o ToStr(operation), v |-> <<>>]
       ELSE IF operation.s = "divide" /\ StrictEq(b, Num(0))
       THEN [form |-> "error",
             s |-> "Error: Division by zero is not allowed", v |-> <<>>]
       ELSE [form |-> "calculate",
             s |-> ToStr(a) \o " " \o operation.s \o " " \o ToStr(b)
                     \o " = " \o ToStr(result),
             v |-> <<operation, a, b, result>>]

\* Math.random() yields r / Resolution for a numerator r in 0..Resolution - 1;
\* with 60 parts every value of each of the four ranges of handleWeather
\* (30, 5, 60 and 20 values) is the image of some numerator
Resolution == 60

\* Math.floor(Math.random() * range) + base, for the random number
\* r / Resolution
RandomInt(r, range, base) == ((r * range) \div Resolution) + base

conditions == <<"Sunny", "Cloudy", "Rainy", "Windy", "Partly Cloudy">>

\* draw.r holds the numerators of the four Math.random() results in call
\* order, draw.now the clock in milliseconds
handleWeather_Wide(args, draw) ==
    LET location == args.location
        unit == IF args.unit.t = "undefined" THEN Str("celsius") ELSE args.unit
        temp == RandomInt(draw.r[1], 31, 10)
        fahrenheit == StrictEq(unit, Str("fahrenheit"))
    IN [form |-> "weather",
        s |-> "",
        v |-> <<location,
                IF fahrenheit THEN Ratio(temp * 9 + 160, 5) ELSE Num(temp),
                Str(IF fahrenheit THEN "°F" ELSE "°C"),
                Str(conditions[RandomInt(draw.r[2], Len(conditions), 0) + 1]),
                Num(RandomInt(draw.r[3], 60, 40)),
                Num(RandomInt(draw.r[4], 20, 5)),
                Str("iso:" \o IntToStr(draw.now))>>]

handleWeather(args, draw) ==
    LET location == args.location
        unit == IF args.unit.t = "undefined" THEN Str("celsius") ELSE args.unit
        temp == RandomInt(draw.r[1], 30, 10)
        fahrenheit == StrictEq(unit, Str("fahrenheit"))
    IN [form |-> "weather",
        s |-> "",
        v |-> <<location,
                IF fahrenheit THEN Ratio(temp * 9 + 160, 5) ELSE Num(temp),
                Str(IF fahrenheit THEN "°F" ELSE "°C"),
                Str(conditions[RandomInt(draw.r[2], Len(conditions), 0) + 1]),
                Num(RandomInt(draw.r[3], 60, 40)),
                Num(RandomInt(draw.r[4], 20, 5)),
                Str("iso:" \o IntToStr(draw.now))>>]

\* `Echo: ${args}`
handleEcho_WholeArgs(args) ==
    [form |-> "echo", s |-> "Echo: " \o ToStr(Obj), v |-> <<>>]

handleEcho(args) ==
    [form |-> "echo", s |-> "Echo: " \o ToStr(args.message), v |-> <<>>]

\* the default label of the switch placed with case "unix"
handleTimestamp_DefaultUnix(args, draw) ==
    LET format == OrElse(args.format, Str("iso"))
        timestamp ==
            IF StrictEq(format, Str("iso")) THEN Str("iso:" \o IntToStr(draw.now))
            ELSE IF StrictEq(format, Str("locale"))
            THEN Str("locale:" \o IntToStr(draw.now))
            ELSE Num(draw.now \div 1000)
    IN [form |-> "timestamp", s |-> "",
        v |-> <<format, timestamp, Str("iso:" \o IntToStr(draw.now))>>]

handleTimestamp(args, draw) ==
    LET format == OrElse(args.format, Str("iso"))
        timestamp ==
            IF StrictEq(format, Str("unix")) THEN Num(draw.now \div 1000)
            ELSE IF StrictEq(format, Str("locale"))
            THEN Str("locale:" \o IntToStr(draw.now))
            ELSE Str("iso:" \o IntToStr(draw.now))
    IN [form |-> "timestamp", s |-> "",
        v |-> <<format, timestamp, Str("iso:" \o IntToStr(draw.now))>>]

\* The promise callTool returns: fulfilled with the handler's result, or
\* rejected with an Error; ran names the handler that was executed.
callTool(name, args, draw) ==
    IF StrictEq(name, Str("calculate"))
    THEN [ok |-> TRUE, ran |-> "handleCalculate", text |-> handleCalculate(args), err |-> ""]
    ELSE IF StrictEq(name, Str("get_weather"))
    THEN [ok |-> TRUE, ran |-> "handleWeather", text |-> handleWeather(args, draw), err |-> ""]
    ELSE IF StrictEq(name, Str("echo"))
    THEN [ok |-> TRUE, ran |-> "handleEcho", text |-> handleEcho(args), err |-> ""]
    ELSE IF StrictEq(name, Str("get_timestamp"))
    THEN [ok |-> TRUE, ran |-> "handleTimestamp", text |-> handleTimestamp(args, draw), err |-> ""]
    ELSE [ok |-> FALSE, ran |-> "none", text |-> NoText,
          err |-> "Unknown tool: " \o ToStr(name)]

(***************************************************************************)
(* ToolController (controllers/tool.controller.ts)                         *)
(***************************************************************************)
\* ToolController.echo(message)
echo(message, draw) == callTool(Str("echo"), [NoArgs EXCEPT !.message = message], draw)

getServerInfo == [name |-> "fluidsdk-mcp-server", version |-> "1.0.0"]

\* the catalogs.  A property of an input schema is held with its key as
\* name; enum is <<>> for a property without an enumeration.
getTools ==
    <<[name |-> "calculate",
       description |-> "Perform basic mathematical calculations (add, subtract, multiply, divide)",
       inputSchema |->
         [type |-> "object",
          properties |->
            <<[name |-> "operation", type |-> "string",
               enum |-> <<"add", "subtract", "multiply", "divide">>,
               description |-> "The mathematical operation to perform"],
              [name |-> "a", type |-> "number", enum |-> <<>>,
               description |-> "First number"],
              [name |-> "b", type |-> "number", enum |-> <<>>,
               description |-> "Second number"]>>,
          required |-> <<"operation", "a", "b">>]],
      [name |-> "get_weather",
       description |-> "Get mock weather information for a location",
       inputSchema |->
         [type |-> "object",
          properties |->
            <<[name |-> "location", type |-> "string", enum |-> <<>>,
               description |-> "City name or coordinates"],
              [name |-> "unit", type |-> "string",
               enum |-> <<"celsius", "fahrenheit">>,
               description |-> "Temperature unit"]>>,
          required |-> <<"location">>]],
      [name |-> "echo",
       description |-> "Echo back the input message",
       inputSchema |->
         [type |-> "object",
          properties |->
            <<[name |-> "message", type |-> "string", enum |-> <<>>,
               description |-> "Message to echo back"]>>,
          required |-> <<"message">>]],
      [name |-> "get_timestamp",
       description |-> "Get current timestamp in various formats",
       inputSchema |->
         [type |-> "object",
          properties |->
            <<[name |-> "format", type |-> "string",
               enum |-> <<"iso", "unix", "locale">>,
               description |-> "Timestamp format"]>>,
          required |-> <<>>]]>>

getPrompts ==
    <<[name |-> "greeting",
       description |-> "Generate a friendly greeting message",
       arguments |->
         <<[name |-> "name", description |-> "Name of the person to greet",
            required |-> TRUE],
           [name |-> "time_of_day",
            description |-> "Time of day (morning, afternoon, evening)",
            required |-> FALSE]>>],
      [name |-> "code_review",
       description |-> "Generate a code review prompt template",
       arguments |->
         <<[name |-> "language", description |-> "Programming language",
            required |-> TRUE],
           [name |-> "complexity",
            description |-> "Code complexity level (low, medium, high)",
            required |-> FALSE]>>],
      [name |-> "debug_assistant",
       description |-> "Generate a debugging assistance prompt",
       arguments |->
         <<[name |-> "error_type",
            description |-> "Type of error (syntax, runtime, logical)",
            required |-> TRUE]>>]>>

getResources ==
    <<[uri |-> "fluidsdk://config", name |-> "Server Configuration",
       description |-> "Current MCP server configuration",
       mimeType |-> "application/json"],
      [uri |-> "fluidsdk://status", name |-> "Server Status",
       description |-> "Real-time server health and metrics",
       mimeType |-> "application/json"],
      [uri |-> "fluidsdk://docs/api", name |-> "API Documentation",
       description |-> "FluidSDK API reference",
       mimeType |-> "text/markdown"],
      [uri |-> "fluidsdk://docs/quickstart", name |-> "Quick Start Guide",
       description |-> "Getting started with FluidSDK",
       mimeType |-> "text/markdown"]>>

(***************************************************************************)
(* Requests.  One record shape for every route; a property a request does  *)
(* not carry is Undef.                                                     *)
(*   verb, path, origin   the request line and the origin it was sent to   *)
(*   xPayment             the X-PAYMENT header                             *)
(*   facilitator          what the facilitator answers when it is asked to *)
(*                        verify xPayment: "verified", "rejected",         *)
(*                        "timeout"; "none" when there is no header        *)
(*   jsonrpc, method, id, params, name, arguments   the JSON-RPC body;     *)
(*                        params and arguments are Undef, Null or Obj      *)
(*   args                 the tool arguments: params.arguments, the query  *)
(*                        string or the REST body                          *)
(*   endpoint, paymentProof, amount   the body of the /test routes         *)
(***************************************************************************)
LOCALHOST == "http://localhost:3000"

BaseRequest ==
    [verb |-> "POST", path |-> "/mcp", origin |-> LOCALHOST,
     xPayment |-> Undef, facilitator |-> "none",
     jsonrpc |-> Undef, method |-> Undef, id |-> Undef, params |-> Undef,
     name |-> Undef, arguments |-> Undef, args |-> NoArgs,
     endpoint |-> Undef, paymentProof |-> Undef, amount |-> Undef]

\* the URL of the request itself, without its query string
RequestUrl(r) == r.origin \o r.path

(***************************************************************************)
(* Responses.  status is the HTTP status; shape tells which body it is:    *)
(* "jsonrpc" (envelope: id, and either result or code/message/data),       *)
(* "rest" (success with the parsed tool value in value, or error/message/  *)
(* required/example), "x402" (the 402 body, in challenge), "plain" (the    *)
(* other JSON bodies).  A property with value Undef is left out of the     *)
(* JSON that is sent.                                                      *)
(***************************************************************************)
\* count is -1 when the body has no count
NoResult == [kind |-> "none", list |-> <<>>, text |-> NoText, count |-> -1]

NoChallenge ==
    [present |-> FALSE, x402Version |-> 0, error |-> "", scheme |-> "",
     network |-> "", maxAmountRequired |-> "", resource |-> "",
     description |-> Undef, payTo |-> Undef, maxTimeoutSeconds |-> 0,
     asset |-> "", outputSchema |-> FALSE, extraName |-> "", extraVersion |-> ""]

NoResponse ==
    [status |-> 0, shape |-> "none", id |-> Undef, code |-> 0, message |-> "",
     data |-> "", result |-> NoResult, challenge |-> NoChallenge,
     success |-> FALSE, error |-> "", required |-> <<>>, example |-> FALSE,
     value |-> NoText]

\* res.status(status).json({jsonrpc: "2.0", error: {code, message, data}, id})
JsonRpcError(status, code, message, data, id) ==
    [NoResponse EXCEPT !.status = status, !.shape = "jsonrpc", !.code = code,
                       !.message = message, !.data = data, !.id = id]

\* res.json({jsonrpc: "2.0", result, id})
JsonRpcResult(result, id) ==
    [NoResponse EXCEPT !.status = 200, !.shape = "jsonrpc", !.result = result,
                       !.id = id]

\* res.status(400).json({error, message}) and its variant with required /
\* example
RestError(error, message, required, example) ==
    [NoResponse EXCEPT !.status = 400, !.shape = "rest", !.error = error,
                       !.message = message, !.required = required,
                       !.example = example]

\* JSON.stringify of a value inside an object literal: NaN and the
\* infinities become null
JsonValue(v) == IF v.t \in {"NaN", "Infinity"} THEN Null ELSE v

\* JSON.parse(text) of a tool text: the value it denotes, or a SyntaxError
\* when the text is not JSON
JsonParse(text) ==
    IF text.form \in {"calculate", "weather", "timestamp"}
    THEN [ok |-> TRUE,
          value |-> [text EXCEPT !.v = [i \in 1..Len(text.v) |-> JsonValue(text.v[i])]],
          err |-> ""]
    ELSE [ok |-> FALSE, value |-> NoText, err |-> "Unexpected token in JSON"]

\* res.json({success: true, ...result})
RestSuccess(value) ==
    [NoResponse EXCEPT !.status = 200, !.shape = "rest", !.success = TRUE,
                       !.value = value]

(***************************************************************************)
(* What a handler does with a request: the response it sends at once       *)
(* (pc = "responded"), or the promise it awaits (pc = "awaiting"), and the *)
(* stages it went through meanwhile.                                       *)
(***************************************************************************)
NoPromise == [ok |-> FALSE, ran |-> "none", text |-> NoText, err |-> ""]

Respond(events, resp) ==
    [pc |-> "responded", events |-> events \o <<"Rendered">>,
     promise |-> NoPromise, resp |-> resp]

Await(events, promise) ==
    [pc |-> "awaiting",
     events |-> events \o (IF promise.ran = "none" THEN <<>> ELSE <<"Executed">>),
     promise |-> promise, resp |-> NoResponse]

\* params.arguments || {}
ToolArgs(r) == IF r.arguments.t = "object" THEN r.args ELSE NoArgs

(***************************************************************************)
(* routes/mcp.routes.ts : router.post("/"), the JSON-RPC endpoint, up to   *)
(* its await.                                                              *)
(***************************************************************************)
\* jsonrpc !== "2.0" is false
ValidVersion_Loose(jsonrpc) ==
    StrictEq(jsonrpc, Str("2.0")) \/ (jsonrpc.t = "number" /\ jsonrpc.n = 2 /\ jsonrpc.d = 1)

ValidVersion(jsonrpc) == StrictEq(jsonrpc, Str("2.0"))

McpInitialize(r) ==
    Respond(<<"Normalized">>,
            JsonRpcResult([NoResult EXCEPT !.kind = "initialize",
                             !.list = <<getServerInfo.name, getServerInfo.version>>],
                          r.id))

McpToolsList_Gated(r) ==
    IF Falsy(r.xPayment)
    THEN Respond(<<"PaymentChecked">>,
                 [NoResponse EXCEPT !.status = 402, !.shape = "x402"])
    ELSE Respond(<<"PaymentChecked", "Normalized">>,
                 JsonRpcResult([NoResult EXCEPT !.kind = "tools", !.list = getTools], r.id))

McpToolsList(r) ==
    Respond(<<"Normalized">>,
            JsonRpcResult([NoResult EXCEPT !.kind = "tools", !.list = getTools], r.id))

McpPromptsList_ByHeader(r) ==
    Respond(<<"Normalized">>,
            JsonRpcResult([NoResult EXCEPT !.kind = "prompts",
                             !.list = IF Falsy(r.xPayment) THEN SubSeq(getPrompts, 1, 1)
                                      ELSE getPrompts],
                          r.id))

McpPromptsList(r) ==
    Respond(<<"Normalized">>,
            JsonRpcResult([NoResult EXCEPT !.kind = "prompts", !.list = getPrompts], r.id))

McpResourcesList(r) ==
    Respond(<<"Normalized">>,
            JsonRpcResult([NoResult EXCEPT !.kind = "resources", !.list = getResources],
                          r.id))

\* the tools/call branch, up to its await
McpToolsCall(r, draw) ==
    IF r.params.t /= "object"
    \* destructuring undefined or null throws a TypeError, which the outer
    \* catch of the handler turns into the Internal error envelope
    THEN Respond(<<>>, JsonRpcError(500, -32603, "Internal error",
                    "Cannot destructure property 'name' of 'params'",
                    OrElse(r.id, Null)))
    ELSE IF Falsy(r.name)
    THEN Respond(<<>>, JsonRpcError(400, -32602,
                    "Invalid params: 'name' is required", "", r.id))
    ELSE Await(<<"Normalized">>, callTool(r.name, ToolArgs(r), draw))

\* the fallthrough of the handler: a method with no branch of its own
McpOtherMethod_Generic(r) ==
    Respond(<<>>, JsonRpcError(501, -32601, "Method not implemented", "", r.id))

McpOtherMethod(r) ==
    Respond(<<>>, JsonRpcError(501, -32601,
                    "Method not implemented: " \o ToStr(r.method), "", r.id))

PostMcp(r, draw) ==
    IF ~ValidVersion(r.jsonrpc)
    THEN Respond(<<>>, JsonRpcError(400, -32600,
                    "Invalid Request: jsonrpc must be '2.0'", "", OrElse(r.id, Null)))
    ELSE IF StrictEq(r.method, Str("initialize")) THEN McpInitialize(r)
    ELSE IF StrictEq(r.method, Str("tools/list")) THEN McpToolsList(r)
    ELSE IF StrictEq(r.method, Str("prompts/list")) THEN McpPromptsList(r)
    ELSE IF StrictEq(r.method, Str("resources/list")) THEN McpResourcesList(r)
    ELSE IF StrictEq(r.method, Str("tools/call")) THEN McpToolsCall(r, draw)
    ELSE McpOtherMethod(r)

\* router.post("/") after its await: the result envelope, or the inner catch
PostMcpResume_Uncaught(r, promise) ==
    JsonRpcResult([NoResult EXCEPT !.kind = "tool", !.text = promise.text], r.id)

PostMcpResume(r, promise) ==
    IF promise.ok
    THEN JsonRpcResult([NoResult EXCEPT !.kind = "tool", !.text = promise.text], r.id)
    ELSE JsonRpcError(400, -32602, promise.err, "", r.id)

(***************************************************************************)
(* routes/mcp.routes.ts : router.post("/initialize")                       *)
(***************************************************************************)
PostInitialize(r) ==
    Respond(<<"Normalized">>,
            [NoResponse EXCEPT !.status = 200, !.shape = "plain",
               !.result = [NoResult EXCEPT !.kind = "initialize",
                             !.list = <<getServerInfo.name, getServerInfo.version>>]])

(***************************************************************************)
(* routes/mcp.routes.ts : the REST tool routes, up to their await, and the *)
(* continuation they share.                                                *)
(***************************************************************************)
GetCalculate(r, draw) ==
    IF Falsy(r.args.operation) \/ Falsy(r.args.a) \/ Falsy(r.args.b)
    THEN Respond(<<>>, RestError("Missing parameters", "",
                                 <<"operation", "a", "b">>, TRUE))
    ELSE Await(<<"Normalized">>,
               callTool(Str("calculate"),
                        [NoArgs EXCEPT !.operation = r.args.operation,
                                       !.a = parseFloat(r.args.a),
                                       !.b = parseFloat(r.args.b)],
                        draw))

PostCalculate(r, draw) ==
    IF Falsy(r.args.operation) \/ r.args.a.t = "undefined" \/ r.args.b.t = "undefined"
    THEN Respond(<<>>, RestError("Missing parameters", "",
                                 <<"operation", "a", "b">>, TRUE))
    ELSE Await(<<"Normalized">>,
               callTool(Str("calculate"),
                        [NoArgs EXCEPT !.operation = r.args.operation,
                                       !.a = r.args.a, !.b = r.args.b],
                        draw))

GetWeather(r, draw) ==
    IF Falsy(r.args.location)
    THEN Respond(<<>>, RestError("Missing location parameter", "", <<>>, TRUE))
    ELSE Await(<<"Normalized">>,
               callTool(Str("get_weather"),
                        [NoArgs EXCEPT !.location = r.args.location,
                                       !.unit = OrElse(r.args.unit, Str("celsius"))],
                        draw))

PostWeather(r, draw) ==
    IF Falsy(r.args.location)
    THEN Respond(<<>>, RestError("Missing location parameter", "", <<>>, TRUE))
    ELSE Await(<<"Normalized">>,
               callTool(Str("get_weather"),
                        [NoArgs EXCEPT !.location = r.args.location,
                                       !.unit = OrElse(r.args.unit, Str("celsius"))],
                        draw))

\* after the await: JSON.parse of the tool text and the success body, or the
\* catch of the route
RestResume(r, promise) ==
    LET failed == IF r.path = "/mcp/calculate" THEN "Calculation failed"
                  ELSE "Weather fetch failed"
        parsed == JsonParse(promise.text)
    IN IF ~promise.ok THEN RestError(failed, promise.err, <<>>, FALSE)
       ELSE IF ~parsed.ok THEN RestError(failed, parsed.err, <<>>, FALSE)
       ELSE RestSuccess(parsed.value)

(***************************************************************************)
(* index.ts : app.get / app.post of the REST tool routes, which render the *)
(* tool result as it is.                                                   *)
(***************************************************************************)
\* res.json(result) of a settled tool result: {content: [{type, text}]}
RawResult(promise) ==
    [NoResponse EXCEPT !.status = 200, !.shape = "plain",
       !.result = [NoResult EXCEPT !.kind = "tool", !.text = promise.text]]

\* callTool is not awaited: result is a pending promise, whose JSON is {}
AppGetCalculate(r, draw) ==
    IF Falsy(r.args.operation) \/ Falsy(r.args.a) \/ Falsy(r.args.b)
    THEN Respond(<<>>, RestError("Missing parameters", "",
                                 <<"operation", "a", "b">>, TRUE))
    ELSE LET result == callTool(Str("calculate"),
                                [NoArgs EXCEPT !.operation = r.args.operation,
                                               !.a = parseFloat(r.args.a),
                                               !.b = parseFloat(r.args.b)],
                                draw)
         IN [Respond(Await(<<"Normalized">>, result).events,
                     [NoResponse EXCEPT !.status = 200, !.shape = "plain"])
               EXCEPT !.promise = result]

AppPostCalculate(r, draw) ==
    IF Falsy(r.args.operation) \/ r.args.a.t = "undefined" \/ r.args.b.t = "undefined"
    THEN Respond(<<>>, RestError("Missing parameters", "",
                                 <<"operation", "a", "b">>, TRUE))
    ELSE Await(<<"Normalized">>,
               callTool(Str("calculate"),
                        [NoArgs EXCEPT !.operation = r.args.operation,
                                       !.a = r.args.a, !.b = r.args.b],
                        draw))

AppGetWeather(r, draw) ==
    IF Falsy(r.args.location)
    THEN Respond(<<>>, RestError("Missing location parameter", "", <<>>, TRUE))
    ELSE Await(<<"Normalized">>,
               callTool(Str("get_weather"),
                        [NoArgs EXCEPT !.location = r.args.location,
                                       !.unit = OrElse(r.args.unit, Str("celsius"))],
                        draw))

AppPostWeather(r, draw) ==
    IF Falsy(r.args.location)
    THEN Respond(<<>>, RestError("Missing location parameter", "", <<>>, TRUE))
    ELSE Await(<<"Normalized">>,
               callTool(Str("get_weather"),
                        [NoArgs EXCEPT !.location = r.args.location,
                                       !.unit = OrElse(r.args.unit, Str("celsius"))],
                        draw))

\* after the await: the tool result as it is, or the catch of the route
AppResume(r, promise) ==
    LET failed == IF r.path = "/mcp/calculate" THEN "Calculation failed"
                  ELSE "Weather fetch failed"
    IN IF ~promise.ok THEN RestError(failed, promise.err, <<>>, FALSE)
       ELSE RawResult(promise)

(***************************************************************************)
(* The REST route of echo, which GET /mcp/tools advertises at /mcp/echo.   *)
(* Its handler is not among the route files at hand: it is taken to check  *)
(* that the required message is there, to call ToolController.echo and to  *)
(* render the outcome as the REST shape {success: true, ...value}.         *)
(***************************************************************************)
EchoRoute(r, draw) ==
    IF r.args.message = Undef
    THEN Respond(<<>>, RestError("Missing message parameter", "", <<"message">>, TRUE))
    ELSE Await(<<"Normalized">>, echo(r.args.message, draw))

EchoRouteResume(r, promise) ==
    IF ~promise.ok THEN RestError("Echo failed", promise.err, <<>>, FALSE)
    ELSE RestSuccess(promise.text)

(***************************************************************************)
(* routes/health.routes.ts : the x402 test routes.                         *)
(***************************************************************************)
DEFAULT_PAY_TO == "0x38C867005D271Eb8Ea68F262ac64F1Bf336Ee2cf"
USDC_ASSET == "0x036CbD53842c5426634e7929541eC2318f3dCF7e"

\* res.status(402).json(challenge)
PaymentRequired(challenge) ==
    [NoResponse EXCEPT !.status = 402, !.shape = "x402", !.challenge = challenge]

\* router.post("/test/protected-call")
ProtectedCall(r, e) ==
    LET paymentHeader == r.xPayment
    IN IF Falsy(paymentHeader)
       THEN Respond(<<"PaymentChecked">>,
              PaymentRequired(
                [present |-> TRUE, x402Version |-> 1,
                 error |-> "X-PAYMENT header is required",
                 scheme |-> "exact", network |-> "base-sepolia",
                 maxAmountRequired |-> "1000",
                 resource |-> LOCALHOST \o ToStr(r.endpoint),
                 description |-> Str("Payment required for this resource"),
                 payTo |-> OrElse(e.ADDRESS, Str(DEFAULT_PAY_TO)),
                 maxTimeoutSeconds |-> 60,
                 asset |-> USDC_ASSET,
                 outputSchema |-> TRUE,
                 extraName |-> "USDC", extraVersion |-> "2"]))
       ELSE Respond(<<"PaymentChecked">>,
              [NoResponse EXCEPT !.status = 200, !.shape = "plain", !.success = TRUE,
                                 !.message = "Payment accepted - request processed"])

\* router.post("/test/verify-payment")
VerifyPayment(r) ==
    IF Falsy(r.paymentProof) \/ Falsy(r.endpoint) \/ Falsy(r.amount)
    THEN Respond(<<>>, [RestError("Missing required fields", "",
                                  <<"paymentProof", "endpoint", "amount">>, FALSE)
                          EXCEPT !.shape = "plain"])
    ELSE Respond(<<>>,
           [NoResponse EXCEPT !.status = 200, !.shape = "plain", !.success = TRUE,
                              !.message = "Payment verified (mock)"])

(***************************************************************************)
(* routes/mcp.routes.ts : the REST listing routes.  One version of the     *)
(* file answers GET and POST with {tools, count}; the other answers GET    *)
(* with a simplified array that carries the endpoint and the pricing of    *)
(* each tool.                                                              *)
(***************************************************************************)
\* res.json({tools, count: tools.length})
Listing(kind, entries) ==
    Respond(<<"Normalized">>,
            [NoResponse EXCEPT !.status = 200, !.shape = "plain",
               !.result = [NoResult EXCEPT !.kind = kind, !.list = entries,
                                           !.count = Len(entries)]])

ListTools(r) == Listing("tools", getTools)

ListPrompts(r) == Listing("prompts", getPrompts)

ListResources(r) == Listing("resources", getResources)

\* res.json(simplified...)
Simplified(kind, entries) ==
    Respond(<<"Normalized">>,
            [NoResponse EXCEPT !.status = 200, !.shape = "plain",
               !.result = [NoResult EXCEPT !.kind = kind, !.list = entries]])

Pricing(price) ==
    [price |-> price, network |-> "base-sepolia",
     tokens |-> <<[address |-> USDC_ASSET, symbol |-> "USDC",
                   decimals |-> USDC_DECIMALS]>>,
     chainId |-> 84532]

\* pricingMap[name] || {price: "$0.1", ...}
pricingMap(name) ==
    CASE name = "calculate" -> Pricing(PAYMENT_CONFIG.calculate)
      [] name = "get_weather" -> Pricing(PAYMENT_CONFIG.weather)
      [] name = "echo" -> Pricing(PAYMENT_CONFIG.echo)
      [] name = "get_timestamp" -> Pricing(PAYMENT_CONFIG.timestamp)
      [] OTHER -> Pricing(<<"$", "0", ".", "1">>)

\* required.includes(key)
Includes(seq, x) == \E i \in 1..Len(seq) : seq[i] = x

simplifiedTools ==
    [i \in 1..Len(getTools) |->
        LET tool == getTools[i]
        IN [name |-> tool.name,
            description |-> tool.description,
            endpoint |-> "/mcp/" \o (IF tool.name = "get_weather" THEN "weather"
                                     ELSE IF tool.name = "get_timestamp"
                                     THEN "timestamp"
                                     ELSE tool.name),
            parameters |->
              [k \in 1..Len(tool.inputSchema.properties) |->
                  LET value == tool.inputSchema.properties[k]
                  IN [name |-> value.name,
                      type |-> value.type,
                      description |-> value.description,
                      required |-> Includes(tool.inputSchema.required, value.name),
                      enum |-> value.enum]],
            pricing |-> pricingMap(tool.name)]]

simplifiedPrompts ==
    [i \in 1..Len(getPrompts) |->
        LET prompt == getPrompts[i]
        IN [name |-> prompt.name,
            description |-> prompt.description,
            parameters |->
              [k \in 1..Len(prompt.arguments) |->
                  [name |-> prompt.arguments[k].name,
                   description |-> prompt.arguments[k].description,
                   required |-> prompt.arguments[k].required]]]]

simplifiedResources ==
    [i \in 1..Len(getResources) |->
        LET resource == getResources[i]
        IN [name |-> resource.name,
            uri |-> resource.uri,
            description |-> resource.description,
            mimeType |-> resource.mimeType]]

GetSimplifiedTools(r) == Simplified("tools", simplifiedTools)

GetSimplifiedPrompts(r) == Simplified("prompts", simplifiedPrompts)

GetSimplifiedResources(r) == Simplified("resources", simplifiedResources)

(***************************************************************************)
(* NEXTJS_X402_IMPLEMENTATION.md : app/api/calculate/route.ts, GET         *)
(***************************************************************************)
DocsGetCalculate(r, e) ==
    LET paymentHeader == r.xPayment
        operation == r.args.operation
        a == parseFloat(OrElse(r.args.a, Str("0")))
        b == parseFloat(OrElse(r.args.b, Str("0")))
        known == operation.t = "string"
                   /\ operation.s \in {"add", "subtract", "multiply", "divide"}
        result == CASE operation.s = "add" -> JsAdd(a, b)
                    [] operation.s = "subtract" -> JsSub(a, b)
                    [] operation.s = "multiply" -> JsMul(a, b)
                    [] operation.s = "divide" ->
                         IF ~StrictEq(b, Num(0)) THEN JsDiv(a, b) ELSE Num(0)
    IN IF Falsy(paymentHeader)
       THEN Respond(<<"PaymentChecked">>,
              PaymentRequired(
                [present |-> TRUE, x402Version |-> 1,
                 error |-> "X-PAYMENT header is required",
                 scheme |-> "exact", network |-> "base-sepolia",
                 maxAmountRequired |-> "1000",
                 resource |-> r.origin \o "/api/calculate",
                 description |-> Undef,
                 payTo |-> e.PAYMENT_ADDRESS,
                 maxTimeoutSeconds |-> 60,
                 asset |-> USDC_ASSET,
                 outputSchema |-> FALSE,
                 extraName |-> "USDC", extraVersion |-> "2"]))
       ELSE IF ~known
       THEN Respond(<<"PaymentChecked">>,
                    RestError("Invalid operation", "", <<>>, FALSE))
       ELSE Respond(<<"PaymentChecked", "Normalized", "Executed">>,
              RestSuccess(
                [form |-> "calculate",
                 s |-> ToStr(a) \o " " \o operation.s \o " " \o ToStr(b)
                         \o " = " \o ToStr(result),
                 v |-> <<operation, JsonValue(a), JsonValue(b), JsonValue(result)>>]))

(***************************************************************************)
(* The requests the environment sends.                                     *)
(***************************************************************************)
\* number of clock readings
MaxClock == 2

\* the outcomes of Math.random() and Date.now() one tool call observes
\* MaxDraw numerators spread evenly over 0..Resolution - 1
Numerators == {(k * Resolution) \div MaxDraw : k \in 0..(MaxDraw - 1)}

Draws == [r : [1..4 -> Numerators], now : {1500 * k : k \in 1..MaxClock}]

\* every numerator for one Math.random() call at a time, the other calls
\* yielding 0
FineDraws ==
    {[r |-> [i \in 1..4 |-> IF i = j THEN k ELSE 0], now |-> 1500] :
        j \in 1..4, k \in 0..(Resolution - 1)}

\* the X-PAYMENT header of a request and the facilitator's verdict on it
Payments ==
    {[x |-> Undef, f |-> "none"], [x |-> Str(""), f |-> "rejected"]}
      \cup {[x |-> Str("proof"), f |-> f] : f \in {"verified", "rejected", "timeout"}}

WithPayment(r, p) == [r EXCEPT !.xPayment = p.x, !.facilitator = p.f]

Ids == {Undef, Num(0), Num(7), Str(""), Str("abc")}

Versions == {Undef, Str("2.0"), Str("1.0"), Num(2)}

CalcArgs(op, a, b) == [NoArgs EXCEPT !.operation = op, !.a = a, !.b = b]

\* params of a tools/call: absent, null, or an object with name / arguments
CallParams ==
    {[params |-> Undef, name |-> Undef, arguments |-> Undef, args |-> NoArgs],
     [params |-> Null, name |-> Undef, arguments |-> Undef, args |-> NoArgs],
     [params |-> Obj, name |-> Undef, arguments |-> Undef, args |-> NoArgs],
     [params |-> Obj, name |-> Str(""), arguments |-> Obj, args |-> NoArgs],
     [params |-> Obj, name |-> Str("nope"), arguments |-> Undef, args |-> NoArgs],
     [params |-> Obj, name |-> Str("calculate"), arguments |-> Obj,
      args |-> CalcArgs(Str("add"), Num(10), Num(5))],
     [params |-> Obj, name |-> Str("calculate"), arguments |-> Obj,
      args |-> CalcArgs(Str("divide"), Num(10), Num(0))],
     [params |-> Obj, name |-> Str("calculate"), arguments |-> Obj,
      args |-> CalcArgs(Str("pow"), Num(10), Num(5))],
     [params |-> Obj, name |-> Str("get_weather"), arguments |-> Obj,
      args |-> [NoArgs EXCEPT !.location = Str("Paris")]],
     [params |-> Obj, name |-> Str("get_weather"), arguments |-> Obj,
      args |-> [NoArgs EXCEPT !.location = Str("Paris"), !.unit = Str("fahrenheit")]],
     [params |-> Obj, name |-> Str("echo"), arguments |-> Obj,
      args |-> [NoArgs EXCEPT !.message = Str("hi")]],
     [params |-> Obj, name |-> Str("echo"), arguments |-> Undef, args |-> NoArgs],
     [params |-> Obj, name |-> Str("get_timestamp"), arguments |-> Obj,
      args |-> [NoArgs EXCEPT !.format = Str("unix")]],
     [params |-> Obj, name |-> Str("get_timestamp"), arguments |-> Obj,
      args |-> [NoArgs EXCEPT !.format = Str("bogus")]]}

Methods ==
    {Undef, Str("initialize"), Str("tools/list"), Str("prompts/list"),
     Str("resources/list"), Str("foo/bar"), Str("tools/call "), Num(7)}

JsonRpcRequests ==
    {[BaseRequest EXCEPT !.jsonrpc = v, !.method = m, !.id = i] :
        v \in Versions, m \in Methods, i \in Ids}
      \cup
    {[BaseRequest EXCEPT !.jsonrpc = v, !.method = Str("tools/call"), !.id = i,
                         !.params = c.params, !.name = c.name,
                         !.arguments = c.arguments, !.args = c.args] :
        v \in Versions, i \in Ids, c \in CallParams}

CalculateRequests ==
    {[BaseRequest EXCEPT !.verb = "GET", !.path = "/mcp/calculate",
                         !.args = CalcArgs(op, a, b)] :
        op \in {Undef, Str("add"), Str("divide")},
        a \in {Undef, Str("10"), Str("abc")},
        b \in {Undef, Str("5"), Str("0")}}
      \cup
    {[BaseRequest EXCEPT !.verb = "POST", !.path = "/mcp/calculate",
                         !.args = CalcArgs(op, a, b)] :
        op \in {Undef, Str("add"), Str("divide")},
        a \in {Undef, Num(10), Str("abc")},
        b \in {Undef, Num(5), Num(0)}}

WeatherRequests ==
    {[BaseRequest EXCEPT !.verb = verb, !.path = "/mcp/weather",
                         !.args = [NoArgs EXCEPT !.location = l, !.unit = u]] :
        verb \in {"GET", "POST"},
        l \in {Undef, Str(""), Str("Paris")},
        u \in {Undef, Str("fahrenheit")}}

InitializeRequests == {[BaseRequest EXCEPT !.path = "/mcp/initialize"]}

Origins == {LOCALHOST, "https://mcp.example.com"}

ProtectedCallRequests ==
    {[BaseRequest EXCEPT !.path = "/test/protected-call", !.origin = o,
                         !.endpoint = ep] :
        o \in Origins,
        ep \in {Undef, Str("/mcp/calculate"), Str("/mcp/weather")}}

VerifyPaymentRequests ==
    {[BaseRequest EXCEPT !.path = "/test/verify-payment", !.paymentProof = p,
                         !.endpoint = ep, !.amount = am] :
        p \in {Undef, Str("proof")},
        ep \in {Undef, Str("/mcp/calculate")},
        am \in {Undef, Str("1000")}}

DocsRequests ==
    {[BaseRequest EXCEPT !.verb = "GET", !.path = "/api/calculate", !.origin = o,
                         !.args = CalcArgs(op, a, b)] :
        o \in Origins,
        op \in {Undef, Str("add"), Str("divide"), Str("pow")},
        a \in {Undef, Str("10")},
        b \in {Undef, Str("0"), Str("5")}}

ListingRequests ==
    {[BaseRequest EXCEPT !.verb = verb, !.path = path] :
        verb \in {"GET", "POST"},
        path \in {"/mcp/tools", "/mcp/prompts", "/mcp/resources"}}

\* the messages given to echo
Messages == {Str(""), Str("hi"), Str("Echo: hi"), Str("  two  words ")}

\* the integers the operands of a calculation are taken from
Operands == {-3, 0, 5, 10}

Operations ==
    {Str("add"), Str("subtract"), Str("multiply"), Str("divide"), Str("pow")}

\* the arguments of a tools/call, by tool; arguments is Undef when params
\* has no arguments property
ToolCalls ==
    {[name |-> Str("calculate"), arguments |-> Obj,
      args |-> CalcArgs(op, Num(a), Num(b))] :
        op \in Operations, a \in Operands, b \in Operands}
      \cup
    {[name |-> Str("calculate"), arguments |-> Obj,
      args |-> CalcArgs(Str("add"), Str("10"), Str("5"))],
     [name |-> Str("calculate"), arguments |-> Undef, args |-> NoArgs]}
      \cup
    {[name |-> Str("get_weather"), arguments |-> Obj,
      args |-> [NoArgs EXCEPT !.location = l, !.unit = u]] :
        l \in {Undef, Str(""), Str("Paris")}, u \in {Undef, Str("fahrenheit")}}
      \cup
    {[name |-> Str("echo"), arguments |-> Obj,
      args |-> [NoArgs EXCEPT !.message = m]] :
        m \in Messages \cup {Undef, Num(5)}}
      \cup
    {[name |-> Str("get_timestamp"), arguments |-> arguments,
      args |-> [NoArgs EXCEPT !.format = f]] :
        arguments \in {Obj},
        f \in {Undef, Str(""), Str("iso"), Str("unix"), Str("locale"),
                Str("bogus"), Num(5)}}
      \cup
    {[name |-> Str("get_timestamp"), arguments |-> Undef, args |-> NoArgs]}

ToolCallRequests ==
    {[BaseRequest EXCEPT !.jsonrpc = Str("2.0"), !.method = Str("tools/call"),
                         !.id = Num(7), !.params = Obj, !.name = c.name,
                         !.arguments = c.arguments, !.args = c.args] :
        c \in ToolCalls}

\* the values of a and b in a query string: absent, empty, not a number,
\* or the decimal literal of an operand
QueryOperands == {Undef, Str(""), Str("abc")} \cup {Str(IntToStr(k)) : k \in Operands}

\* the values of a and b in a JSON body: absent, null, a string, or a number
BodyOperands ==
    {Undef, Null, Str(""), Str("abc"), Str("10"), Str("5")}
      \cup {Num(k) : k \in Operands}

RestCalculateRequests ==
    {[BaseRequest EXCEPT !.verb = "GET", !.path = "/mcp/calculate",
                         !.args = CalcArgs(op, a, b)] :
        op \in Operations \cup {Undef}, a \in QueryOperands, b \in QueryOperands}
      \cup
    {[BaseRequest EXCEPT !.verb = "POST", !.path = "/mcp/calculate",
                         !.args = CalcArgs(op, a, b)] :
        op \in Operations \cup {Undef}, a \in BodyOperands, b \in BodyOperands}

EchoRequests ==
    {[BaseRequest EXCEPT !.verb = verb, !.path = "/mcp/echo",
                         !.args = [NoArgs EXCEPT !.message = m]] :
        verb \in {"GET", "POST"}, m \in Messages \cup {Undef}}

\* every shape of request with every payment header, and the requests that
\* vary the tool arguments without a payment header
Requests ==
    {WithPayment(r, p) :
        r \in JsonRpcRequests \cup CalculateRequests \cup WeatherRequests
                \cup InitializeRequests \cup ProtectedCallRequests
                \cup VerifyPaymentRequests \cup DocsRequests
                \cup ListingRequests,
        p \in Payments}
      \cup ToolCallRequests \cup RestCalculateRequests \cup EchoRequests

\* the environments the process may be started in
Envs ==
    {[ADDRESS |-> Undef, PAYMENT_ADDRESS |-> Undef],
     [ADDRESS |-> Str("0xPayee"), PAYMENT_ADDRESS |-> Str("0xPayee")]}

(***************************************************************************)
(* The state machine.                                                      *)
(*   env      process.env                                                  *)
(*   req      the request each slot is processing                          *)
(*   pc       "idle", "received", "awaiting" (suspended at the await of    *)
(*            callTool) or "responded"                                     *)
(*   handler  the route handler the request was dispatched to              *)
(*   trace    the stages the request went through                          *)
(*   promise  the promise an awaiting handler is suspended on              *)
(*   resp     the response that was sent                                   *)
(***************************************************************************)
VARIABLES env, req, pc, handler, trace, promise, resp

vars == <<env, req, pc, handler, trace, promise, resp>>

NoRequest == [BaseRequest EXCEPT !.verb = "", !.path = ""]

Init ==
    /\ env \in Envs
    /\ req = [s \in Slots |-> NoRequest]
    /\ pc = [s \in Slots |-> "idle"]
    /\ handler = [s \in Slots |-> "none"]
    /\ trace = [s \in Slots |-> <<>>]
    /\ promise = [s \in Slots |-> NoPromise]
    /\ resp = [s \in Slots |-> NoResponse]

\* a request arrives and is handed to its route
Receive(s, r) ==
    /\ pc[s] = "idle"
    /\ req' = [req EXCEPT ![s] = r]
    /\ pc' = [pc EXCEPT ![s] = "received"]
    /\ trace' = [trace EXCEPT ![s] = <<"Received">>]
    /\ UNCHANGED <<env, handler, promise, resp>>

\* requests are processed one at a time
ReceiveAlone(s) ==
    /\ \A o \in Slots : pc[o] = "idle"
    /\ \E r \in Requests : Receive(s, r)

Route(s, verb, path) ==
    pc[s] = "received" /\ req[s].verb = verb /\ req[s].path = path

Apply(s, by, out) ==
    /\ pc' = [pc EXCEPT ![s] = out.pc]
    /\ handler' = [handler EXCEPT ![s] = by]
    /\ trace' = [trace EXCEPT ![s] = @ \o out.events]
    /\ promise' = [promise EXCEPT ![s] = out.promise]
    /\ resp' = [resp EXCEPT ![s] = out.resp]
    /\ UNCHANGED <<env, req>>

HandlePostMcp(s) ==
    /\ Route(s, "POST", "/mcp")
    /\ \E draw \in Draws : Apply(s, "PostMcp", PostMcp(req[s], draw))

HandlePostInitialize(s) ==
    /\ Route(s, "POST", "/mcp/initialize")
    /\ Apply(s, "PostInitialize", PostInitialize(req[s]))

HandleGetCalculate(s) ==
    /\ Route(s, "GET", "/mcp/calculate")
    /\ \E draw \in Draws : Apply(s, "GetCalculate", GetCalculate(req[s], draw))

HandlePostCalculate(s) ==
    /\ Route(s, "POST", "/mcp/calculate")
    /\ \E draw \in Draws : Apply(s, "PostCalculate", PostCalculate(req[s], draw))

HandleGetWeather(s) ==
    /\ Route(s, "GET", "/mcp/weather")
    /\ \E draw \in Draws : Apply(s, "GetWeather", GetWeather(req[s], draw))

HandlePostWeather(s) ==
    /\ Route(s, "POST", "/mcp/weather")
    /\ \E draw \in Draws : Apply(s, "PostWeather", PostWeather(req[s], draw))

HandleAppGetCalculate(s) ==
    /\ Route(s, "GET", "/mcp/calculate")
    /\ \E draw \in Draws : Apply(s, "AppGetCalculate", AppGetCalculate(req[s], draw))

HandleAppPostCalculate(s) ==
    /\ Route(s, "POST", "/mcp/calculate")
    /\ \E draw \in Draws : Apply(s, "AppPostCalculate", AppPostCalculate(req[s], draw))

HandleAppGetWeather(s) ==
    /\ Route(s, "GET", "/mcp/weather")
    /\ \E draw \in Draws : Apply(s, "AppGetWeather", AppGetWeather(req[s], draw))

HandleAppPostWeather(s) ==
    /\ Route(s, "POST", "/mcp/weather")
    /\ \E draw \in Draws : Apply(s, "AppPostWeather", AppPostWeather(req[s], draw))

HandleProtectedCall(s) ==
    /\ Route(s, "POST", "/test/protected-call")
    /\ Apply(s, "ProtectedCall", ProtectedCall(req[s], env))

HandleVerifyPayment(s) ==
    /\ Route(s, "POST", "/test/verify-payment")
    /\ Apply(s, "VerifyPayment", VerifyPayment(req[s]))

HandleDocsGetCalculate(s) ==
    /\ Route(s, "GET", "/api/calculate")
    /\ Apply(s, "DocsGetCalculate", DocsGetCalculate(req[s], env))

HandleListTools(s) ==
    /\ pc[s] = "received" /\ req[s].path = "/mcp/tools"
    /\ Apply(s, "ListTools", ListTools(req[s]))

HandleListPrompts(s) ==
    /\ pc[s] = "received" /\ req[s].path = "/mcp/prompts"
    /\ Apply(s, "ListPrompts", ListPrompts(req[s]))

HandleListResources(s) ==
    /\ pc[s] = "received" /\ req[s].path = "/mcp/resources"
    /\ Apply(s, "ListResources", ListResources(req[s]))

HandleGetSimplifiedTools(s) ==
    /\ Route(s, "GET", "/mcp/tools")
    /\ Apply(s, "GetSimplifiedTools", GetSimplifiedTools(req[s]))

HandleGetSimplifiedPrompts(s) ==
    /\ Route(s, "GET", "/mcp/prompts")
    /\ Apply(s, "GetSimplifiedPrompts", GetSimplifiedPrompts(req[s]))

HandleGetSimplifiedResources(s) ==
    /\ Route(s, "GET", "/mcp/resources")
    /\ Apply(s, "GetSimplifiedResources", GetSimplifiedResources(req[s]))

HandleEchoRoute(s) ==
    /\ pc[s] = "received" /\ req[s].path = "/mcp/echo"
    /\ \E draw \in Draws : Apply(s, "EchoRoute", EchoRoute(req[s], draw))

\* the awaited promise settles and the handler runs to its response
Settle_Shared(s, response) ==
    /\ pc' = [pc EXCEPT ![s] = "responded"]
    /\ trace' = [trace EXCEPT ![s] = @ \o <<"Rendered">>]
    /\ resp' = [o \in Slots |-> IF o = s \/ pc[o] = "responded" THEN response
                                ELSE resp[o]]
    /\ UNCHANGED <<env, req, handler, promise>>

Settle(s, response) ==
    /\ pc' = [pc EXCEPT ![s] = "responded"]
    /\ trace' = [trace EXCEPT ![s] = @ \o <<"Rendered">>]
    /\ resp' = [resp EXCEPT ![s] = response]
    /\ UNCHANGED <<env, req, handler, promise>>

ResumePostMcp(s) ==
    /\ pc[s] = "awaiting"
    /\ handler[s] = "PostMcp"
    /\ Settle(s, PostMcpResume(req[s], promise[s]))

ResumeRest(s) ==
    /\ pc[s] = "awaiting"
    /\ handler[s] \in {"GetCalculate", "PostCalculate", "GetWeather", "PostWeather"}
    /\ Settle(s, RestResume(req[s], promise[s]))

ResumeApp(s) ==
    /\ pc[s] = "awaiting"
    /\ handler[s] \in {"AppPostCalculate", "AppGetWeather", "AppPostWeather"}
    /\ Settle(s, AppResume(req[s], promise[s]))

ResumeEchoRoute(s) ==
    /\ pc[s] = "awaiting"
    /\ handler[s] = "EchoRoute"
    /\ Settle(s, EchoRouteResume(req[s], promise[s]))

\* the response has been delivered; nothing of the request is kept
Release(s) ==
    /\ pc[s] = "responded"
    /\ req' = [req EXCEPT ![s] = NoRequest]
    /\ pc' = [pc EXCEPT ![s] = "idle"]
    /\ handler' = [handler EXCEPT ![s] = "none"]
    /\ trace' = [trace EXCEPT ![s] = <<>>]
    /\ promise' = [promise EXCEPT ![s] = NoPromise]
    /\ resp' = [resp EXCEPT ![s] = NoResponse]
    /\ UNCHANGED env

Handle(s) ==
    \/ HandlePostMcp(s)
    \/ HandlePostInitialize(s)
    \/ HandleGetCalculate(s)
    \/ HandlePostCalculate(s)
    \/ HandleGetWeather(s)
    \/ HandlePostWeather(s)
    \/ HandleAppGetCalculate(s)
    \/ HandleAppPostCalculate(s)
    \/ HandleAppGetWeather(s)
    \/ HandleAppPostWeather(s)
    \/ HandleProtectedCall(s)
    \/ HandleVerifyPayment(s)
    \/ HandleDocsGetCalculate(s)
    \/ HandleListTools(s)
    \/ HandleListPrompts(s)
    \/ HandleListResources(s)
    \/ HandleGetSimplifiedTools(s)
    \/ HandleGetSimplifiedPrompts(s)
    \/ HandleGetSimplifiedResources(s)
    \/ HandleEchoRoute(s)
    \/ ResumePostMcp(s)
    \/ ResumeRest(s)
    \/ ResumeApp(s)
    \/ ResumeEchoRoute(s)
    \/ Release(s)

Next == \E s \in Slots : ReceiveAlone(s) \/ Handle(s)

Spec == Init /\ [][Next]_vars

(***************************************************************************)
(* Weather readings alone: tools/call of get_weather, one request at a     *)
(* time, over every value a Math.random() call can contribute.             *)
(***************************************************************************)
ReadingRequests ==
    {[BaseRequest EXCEPT !.jsonrpc = Str("2.0"), !.method = Str("tools/call"),
                         !.id = Num(7), !.params = Obj,
                         !.name = Str("get_weather"), !.arguments = Obj,
                         !.args = [NoArgs EXCEPT !.location = Str("Paris"),
                                                 !.unit = unit]] :
        unit \in {Undef, Str("celsius"), Str("fahrenheit"), Str("kelvin")}}

ReceiveReading(s) ==
    /\ \A o \in Slots : pc[o] = "idle"
    /\ \E r \in ReadingRequests : Receive(s, r)

HandleReading(s) ==
    /\ Route(s, "POST", "/mcp")
    /\ \E draw \in FineDraws : Apply(s, "PostMcp", PostMcp(req[s], draw))

NextReading ==
    \E s \in Slots :
        ReceiveReading(s) \/ HandleReading(s) \/ ResumePostMcp(s) \/ Release(s)

SpecReading == Init /\ [][NextReading]_vars

(***************************************************************************)
(* Concurrent processing: requests of a narrower set, any number of them   *)
(* in flight at once.                                                      *)
(***************************************************************************)
PairRequests ==
    {WithPayment(r, p) :
        r \in {[BaseRequest EXCEPT !.jsonrpc = Str("2.0"), !.method = Str("tools/call"),
                                   !.id = Num(7), !.params = Obj,
                                   !.name = Str("calculate"), !.arguments = Obj,
                                   !.args = CalcArgs(Str("add"), Num(10), Num(5))],
               [BaseRequest EXCEPT !.verb = "GET", !.path = "/mcp/calculate",
                                   !.args = CalcArgs(Str("add"), Str("10"), Str("5"))],
               [BaseRequest EXCEPT !.verb = "POST", !.path = "/mcp/calculate",
                                   !.args = CalcArgs(Str("add"), Num(10), Num(5))],
               [BaseRequest EXCEPT !.verb = "GET", !.path = "/mcp/weather"],
               [BaseRequest EXCEPT !.verb = "POST", !.path = "/mcp/weather"],
               [BaseRequest EXCEPT !.path = "/mcp/initialize"],
               [BaseRequest EXCEPT !.path = "/test/verify-payment"],
               [BaseRequest EXCEPT !.verb = "GET", !.path = "/mcp/echo",
                                   !.args = [NoArgs EXCEPT !.message = Str("hi")]],
               [BaseRequest EXCEPT !.verb = "GET", !.path = "/api/calculate",
                                   !.args = CalcArgs(Str("add"), Str("10"), Str("5"))]}
                \cup {[BaseRequest EXCEPT !.path = "/test/protected-call",
                                          !.endpoint = ep] :
                        ep \in {Str("/mcp/calculate"), Str("/mcp/weather")}},
        p \in {[x |-> Undef, f |-> "none"]}}
      \cup {WithPayment([BaseRequest EXCEPT !.path = "/test/protected-call",
                                            !.endpoint = Str("/mcp/calculate")],
                        [x |-> Str("proof"), f |-> "verified"])}
      \cup {[BaseRequest EXCEPT !.verb = "GET", !.path = path] :
              path \in {"/mcp/tools", "/mcp/prompts", "/mcp/resources"}}

ReceiveAny(s) == \E r \in PairRequests : Receive(s, r)

NextPair == \E s \in Slots : ReceiveAny(s) \/ Handle(s)

SpecPair == Init /\ [][NextPair]_vars

(***************************************************************************)
(* Vocabulary of the properties.                                           *)
(***************************************************************************)
Responded(s) == pc[s] = "responded"

IsJsonRpc(r) == r.verb = "POST" /\ r.path = "/mcp"

KnownMethods ==
    {Str("initialize"), Str("tools/list"), Str("prompts/list"),
     Str("resources/list"), Str("tools/call")}

UnpricedMethods ==
    {Str("initialize"), Str("tools/list"), Str("prompts/list"), Str("resources/list")}

\* the request fails validation: wrong version, unknown method, tools/call
\* without a name, or a REST call that misses a required parameter
Malformed(r) ==
    \/ /\ IsJsonRpc(r)
       /\ \/ r.jsonrpc /= Str("2.0")
          \/ r.method \notin KnownMethods
          \/ r.method = Str("tools/call") /\ (r.params.t /= "object" \/ Falsy(r.name))
    \/ /\ r.path = "/mcp/calculate"
       /\ Undef \in {r.args.operation, r.args.a, r.args.b}
    \/ /\ r.path = "/mcp/weather"
       /\ Falsy(r.args.location)
    \/ /\ r.path = "/api/calculate"
       /\ r.args.operation = Undef

\* the request asks a priced route for a tool
Priced(r) ==
    \/ IsJsonRpc(r) /\ r.jsonrpc = Str("2.0") /\ r.method = Str("tools/call")
    \/ r.path \in {"/mcp/calculate", "/mcp/weather", "/api/calculate",
                   "/test/protected-call"}

\* the tool a request to a priced route is for
Capability(r) ==
    IF IsJsonRpc(r) THEN ToStr(r.name)
    ELSE IF r.path \in {"/mcp/calculate", "/api/calculate"} THEN "calculate"
    ELSE IF r.path = "/mcp/weather" THEN "get_weather"
    ELSE IF r.endpoint = Str("/mcp/calculate") THEN "calculate"
    ELSE IF r.endpoint = Str("/mcp/weather") THEN "get_weather"
    ELSE "none"

\* the price configured for the route of a request that was challenged
DOCS_CALCULATE_PRICE == <<"$", "0", ".", "0", "0", "1">>

PriceEntry(r) ==
    IF r.path = "/api/calculate" THEN DOCS_CALCULATE_PRICE
    ELSE IF IsJsonRpc(r) THEN PAYMENT_CONFIG.jsonRpc
    ELSE IF Capability(r) = "get_weather" THEN PAYMENT_CONFIG.weather
    ELSE PAYMENT_CONFIG.calculate

\* the address payments are configured to go to
getPaymentAddress(r) == IF r.path = "/api/calculate" THEN env.PAYMENT_ADDRESS ELSE env.ADDRESS

Before(tr, first, second) ==
    \A j \in 1..Len(tr) :
        tr[j] = second => \E i \in 1..(j - 1) : tr[i] = first

Occurs(tr, event) == \E i \in 1..Len(tr) : tr[i] = event

\* C1: on every priced route a tool handler is executed only after the
\* payment gate was consulted for the same request (and let it pass): in
\* every request trace Executed is preceded by PaymentChecked.
C1_ExecutedAfterPaymentChecked ==
    \A s \in Slots :
        Priced(req[s]) => Before(trace[s], "PaymentChecked", "Executed")

\* C2: a well-formed request to a priced route that carries no payment proof
\* is answered with 402 and a challenge whose resource is the URL of the
\* request and whose payTo and asset are the configured ones.
C2_NoProofYields402 ==
    \A s \in Slots :
        (Responded(s) /\ Priced(req[s]) /\ ~Malformed(req[s])
           /\ req[s].xPayment = Undef)
        => /\ resp[s].status = 402
           /\ resp[s].challenge.present
           /\ resp[s].challenge.resource = RequestUrl(req[s])
           /\ resp[s].challenge.payTo = getPaymentAddress(req[s])
           /\ resp[s].challenge.asset = USDC_ASSET

\* C3: a request that fails validation is answered with a failure that is
\* not 402, without the payment gate being consulted and without a tool
\* handler running, whether or not it carries a payment proof.
C3_MalformedNeverReachesGate ==
    \A s \in Slots :
        Malformed(req[s])
        => /\ ~Occurs(trace[s], "PaymentChecked")
           /\ ~Occurs(trace[s], "Executed")
           /\ Responded(s) => resp[s].status \in {400, 404, 500, 501}

\* the challenge the route of r sends to a request without a proof
ProoflessChallenge(r) ==
    LET bare == WithPayment(r, [x |-> Undef, f |-> "none"])
    IN IF r.path = "/api/calculate" THEN DocsGetCalculate(bare, env).resp.challenge
       ELSE ProtectedCall(bare, env).resp.challenge

\* C4: a request to a priced route whose proof the facilitator does not
\* verify (it rejects it, or the call fails or times out) is denied with the
\* challenge a proof-less request receives, and no tool is executed.
C4_UnverifiedProofDenied ==
    \A s \in Slots :
        (Priced(req[s]) /\ ~Malformed(req[s]) /\ req[s].xPayment /= Undef
           /\ req[s].facilitator /= "verified")
        => /\ ~Occurs(trace[s], "Executed")
           /\ Responded(s) => /\ resp[s].status = 402
                              /\ resp[s].challenge = ProoflessChallenge(req[s])

\* C5: the maxAmountRequired of a 402 challenge is the configured price of
\* the route in minor units of the asset.
C5_ChallengeAmountIsPrice ==
    \A s \in Slots :
        (Responded(s) /\ resp[s].status = 402 /\ Capability(req[s]) /= "none")
        => resp[s].challenge.maxAmountRequired = PriceInMinorUnits(PriceEntry(req[s]))

\* the request asks for initialize or one of the three listings
Unpriced(r) ==
    \/ IsJsonRpc(r) /\ r.method \in UnpricedMethods
    \/ r.path = "/mcp/initialize"

\* a result with each entry of its list replaced by the key of the entry:
\* the uri of a resource, the name of a tool or prompt
Keys(result) ==
    [result EXCEPT !.list =
        [i \in 1..Len(result.list) |->
            IF result.kind = "initialize" THEN result.list[i]
            ELSE IF result.kind = "resources" THEN result.list[i].uri
            ELSE result.list[i].name]]

\* the registry content each unpriced method answers with, by keys
RegistryAnswer(r) ==
    IF r.path = "/mcp/initialize" \/ r.method = Str("initialize")
    THEN [NoResult EXCEPT !.kind = "initialize",
                          !.list = <<"fluidsdk-mcp-server", "1.0.0">>]
    ELSE IF r.method = Str("tools/list")
    THEN [NoResult EXCEPT !.kind = "tools",
                          !.list = <<"calculate", "get_weather", "echo", "get_timestamp">>]
    ELSE IF r.method = Str("prompts/list")
    THEN [NoResult EXCEPT !.kind = "prompts",
                          !.list = <<"greeting", "code_review", "debug_assistant">>]
    ELSE [NoResult EXCEPT !.kind = "resources",
                          !.list = <<"fluidsdk://config", "fluidsdk://status",
                                     "fluidsdk://docs/api", "fluidsdk://docs/quickstart">>]

\* C6: initialize, tools/list, prompts/list and resources/list never consult
\* the payment gate and are never answered with 402, whatever the payment
\* header and the payment configuration; a well-formed one is answered with
\* the registry content.
C6_UnpricedBypassGate ==
    \A s \in Slots :
        Unpriced(req[s])
        => /\ ~Occurs(trace[s], "PaymentChecked")
           /\ resp[s].status /= 402
           /\ (Responded(s) /\ ~Malformed(req[s]))
                => /\ resp[s].status = 200
                   /\ Keys(resp[s].result) = RegistryAnswer(req[s])

\* a tools/list answered while it carried a payment header, in a process
\* with a configured payment address
C6_Witness ==
    \E s \in Slots :
        /\ Responded(s)
        /\ req[s].method = Str("tools/list")
        /\ req[s].jsonrpc = Str("2.0")
        /\ req[s].xPayment = Str("proof")
        /\ env.ADDRESS /= Undef
        /\ resp[s].result.list = getTools

\* C7: two proof-less requests for the same priced capability, one sent
\* through the JSON-RPC envelope and one through REST, whatever their other
\* content, receive the same challenge content.
C7_ChallengeDependsOnPriceEntryOnly ==
    \A s1, s2 \in Slots :
        (/\ Responded(s1) /\ Responded(s2)
         /\ IsJsonRpc(req[s1]) /\ ~IsJsonRpc(req[s2])
         /\ Priced(req[s1]) /\ Priced(req[s2])
         /\ ~Malformed(req[s1]) /\ ~Malformed(req[s2])
         /\ req[s1].xPayment = Undef /\ req[s2].xPayment = Undef
         /\ Capability(req[s1]) = Capability(req[s2]))
        => resp[s1].challenge = resp[s2].challenge

\* C8: a JSON-RPC request whose jsonrpc is absent or not exactly "2.0" is
\* answered with code -32600 and HTTP 400, without method dispatch, payment
\* check or tool execution, whatever its method and params.
C8_WrongVersionIsInvalidRequest ==
    \A s \in Slots :
        (IsJsonRpc(req[s]) /\ req[s].jsonrpc /= Str("2.0"))
        => /\ trace[s] \in {<<"Received">>, <<"Received", "Rendered">>}
           /\ pc[s] \in {"received", "responded"}
           /\ promise[s] = NoPromise
           /\ Responded(s) => /\ resp[s].status = 400
                              /\ resp[s].shape = "jsonrpc"
                              /\ resp[s].code = -32600
                              /\ resp[s].result = NoResult

\* a tools/call of a registered tool with the number 2 as its version was
\* answered
C8_Witness ==
    \E s \in Slots :
        /\ Responded(s)
        /\ IsJsonRpc(req[s])
        /\ req[s].jsonrpc = Num(2)
        /\ req[s].method = Str("tools/call")
        /\ req[s].name = Str("echo")
        /\ resp[s].code = -32600

\* C9: every JSON-RPC response echoes the id of its request unchanged, and
\* its id is null only when the request has no id.
C9_ResponseEchoesId ==
    \A s \in Slots :
        (Responded(s) /\ IsJsonRpc(req[s]))
        => IF req[s].id = Undef THEN resp[s].id \in {Null, Undef}
           ELSE resp[s].id = req[s].id

\* C10: a tools/call whose params lacks a non-empty name, or has no params
\* at all, is answered with code -32602 and no tool handler runs.
C10_MissingNameIsInvalidParams ==
    \A s \in Slots :
        (/\ IsJsonRpc(req[s]) /\ req[s].jsonrpc = Str("2.0")
         /\ req[s].method = Str("tools/call")
         /\ (req[s].params.t /= "object" \/ Falsy(req[s].name)))
        => /\ ~Occurs(trace[s], "Executed")
           /\ Responded(s) => resp[s].code = -32602

\* C11: a JSON-RPC request with a valid version whose method is none of
\* initialize, tools/list, prompts/list, resources/list, tools/call is
\* answered with code -32601 and a message that ends with the method as it
\* was sent; nothing is awaited and no tool handler runs for it.
C11_UnknownMethodIsMethodNotFound ==
    \A s \in Slots :
        (IsJsonRpc(req[s]) /\ req[s].jsonrpc = Str("2.0")
           /\ req[s].method \notin KnownMethods)
        => /\ trace[s] \in {<<"Received">>, <<"Received", "Rendered">>}
           /\ promise[s] = NoPromise
           /\ pc[s] \in {"received", "responded"}
           /\ Responded(s)
                => /\ resp[s].shape = "jsonrpc"
                   /\ resp[s].code = -32601
                   /\ resp[s].result = NoResult
                   /\ \E prefix \in {"Method not implemented: ", "Method not found: "} :
                         resp[s].message = prefix \o ToStr(req[s].method)

\* the unknown method foo/bar was answered
C11_Witness ==
    \E s \in Slots :
        /\ Responded(s)
        /\ IsJsonRpc(req[s])
        /\ req[s].jsonrpc = Str("2.0")
        /\ req[s].method = Str("foo/bar")
        /\ resp[s].code = -32601
        /\ resp[s].message = "Method not implemented: foo/bar"

\* the names callTool has a case for
RegisteredTools == {Str("calculate"), Str("get_weather"), Str("echo"), Str("get_timestamp")}

\* the request is a tools/call with a valid version and a non-empty name
IsToolsCall(r) ==
    /\ IsJsonRpc(r) /\ r.jsonrpc = Str("2.0") /\ r.method = Str("tools/call")
    /\ r.params.t = "object" /\ ~Falsy(r.name)

\* C12: a tools/call that names a capability which is not in the registry is
\* answered with the MethodNotFound class (code -32601, HTTP 404 or 501), the
\* class of an unknown method, and not with InvalidParams (-32602, HTTP 400).
C12_UnknownToolIsMethodNotFound ==
    \A s \in Slots :
        (Responded(s) /\ IsToolsCall(req[s]) /\ req[s].name \notin RegisteredTools)
        => /\ resp[s].code = -32601
           /\ resp[s].status \in {404, 501}

\* the request asks calculate, on whichever transport, to divide a number by
\* zero: the operands are numbers in a body and numeric literals in a query
\* string
DividesByZero(r) ==
    \/ /\ IsToolsCall(r) /\ r.name = Str("calculate") /\ r.arguments.t = "object"
       /\ r.args.operation = Str("divide")
       /\ r.args.a.t = "number" /\ r.args.b = Num(0)
    \/ /\ r.verb = "POST" /\ r.path = "/mcp/calculate"
       /\ r.args.operation = Str("divide")
       /\ r.args.a.t = "number" /\ r.args.b = Num(0)
    \/ /\ r.verb = "GET" /\ r.path = "/mcp/calculate"
       /\ r.args.operation = Str("divide")
       /\ r.args.a.t = "string" /\ parseFloat(r.args.a).t = "number"
       /\ r.args.b.t = "string" /\ parseFloat(r.args.b) = Num(0)

\* C13: calculate with operation divide and b = 0 ends in a failure on every
\* transport, a JSON-RPC error envelope of code -32602 or a REST 400, and
\* never in a success envelope, a result or a numeric value.
C13_DivideByZeroFails ==
    \A s \in Slots :
        (Responded(s) /\ DividesByZero(req[s]))
        => /\ resp[s].status = 400
           /\ ~resp[s].success
           /\ resp[s].result = NoResult
           /\ resp[s].value = NoText
           /\ resp[s].shape = "jsonrpc" => resp[s].code = -32602

\* the exact value of a calculation on integers
Exact(op, a, b) ==
    CASE op = "add" -> a + b
      [] op = "subtract" -> a - b
      [] op = "multiply" -> a * b

\* the success value of calculate for the integers a and b
CalculateValue(op, a, b) ==
    [form |-> "calculate",
     s |-> IntToStr(a) \o " " \o op \o " " \o IntToStr(b) \o " = "
             \o IntToStr(Exact(op, a, b)),
     v |-> <<Str(op), Num(a), Num(b), Num(Exact(op, a, b))>>]

\* C14: for operation add, subtract or multiply on integers a and b, the
\* success value of calculate is {operation, operands: [a, b], result,
\* expression} with result exactly a + b, a - b or a * b and expression
\* "<a> <operation> <b> = <result>"; tools/call returns it as the result and
\* the REST routes of the router render it as 200 {success: true, ...value}.
C14_CalculateIsExact ==
    \A s \in Slots : \A op \in {"add", "subtract", "multiply"} :
        \A a \in Operands, b \in Operands :
            /\ (/\ Responded(s) /\ IsToolsCall(req[s])
                /\ req[s].name = Str("calculate") /\ req[s].arguments = Obj
                /\ req[s].args = CalcArgs(Str(op), Num(a), Num(b)))
               => /\ resp[s].status = 200
                  /\ resp[s].shape = "jsonrpc"
                  /\ resp[s].code = 0
                  /\ resp[s].result.kind = "tool"
                  /\ resp[s].result.text = CalculateValue(op, a, b)
            /\ (/\ Responded(s)
                /\ \/ /\ handler[s] = "GetCalculate"
                      /\ req[s].args
                           = CalcArgs(Str(op), Str(IntToStr(a)), Str(IntToStr(b)))
                   \/ /\ handler[s] = "PostCalculate"
                      /\ req[s].args = CalcArgs(Str(op), Num(a), Num(b)))
               => /\ resp[s].status = 200
                  /\ resp[s].shape = "rest"
                  /\ resp[s].success
                  /\ resp[s].value = CalculateValue(op, a, b)

\* GET /mcp/calculate?operation=subtract&a=-3&b=10 was answered with the
\* result -13
C14_Witness ==
    \E s \in Slots :
        /\ Responded(s)
        /\ handler[s] = "GetCalculate"
        /\ req[s].args = CalcArgs(Str("subtract"), Str("-3"), Str("10"))
        /\ resp[s].success
        /\ resp[s].value.s = "-3 subtract 10 = -13"
        /\ resp[s].value.v[4] = Num(-13)

\* the arguments of a tools/call violate what the schema of the named tool
\* requires: echo without message, get_weather without a non-empty location,
\* calculate with an operation outside the enumeration
ViolatesSchema(r) ==
    /\ IsToolsCall(r)
    /\ \/ r.name = Str("echo") /\ ToolArgs(r).message = Undef
       \/ r.name = Str("get_weather") /\ Falsy(ToolArgs(r).location)
       \/ /\ r.name = Str("calculate")
          /\ ToolArgs(r).operation
               \notin {Str("add"), Str("subtract"), Str("multiply"), Str("divide")}

\* C15: a tools/call whose arguments violate the requirements of the named
\* tool is answered with a JSON-RPC error of code -32602 and never with a
\* result envelope.
C15_BadArgumentsAreInvalidParams ==
    \A s \in Slots :
        (Responded(s) /\ ViolatesSchema(req[s]))
        => /\ resp[s].code = -32602
           /\ resp[s].result = NoResult

LenientFormat(r) ==
    /\ IsToolsCall(r) /\ r.name = Str("get_timestamp")
    /\ ToolArgs(r).format \notin {Str("iso"), Str("unix"), Str("locale")}

\* what get_timestamp yields for format iso at the instant of a draw
IsoOutcome(draw) == handleTimestamp([NoArgs EXCEPT !.format = Str("iso")], draw)

\* C17 as claimed: for a format outside {iso, unix, locale}, or an absent
\* one, get_timestamp returns the success outcome that format iso yields at
\* the same instant.
C17_LenientFormatEqualsIso ==
    \A s \in Slots :
        (Responded(s) /\ LenientFormat(req[s]))
        => /\ resp[s].status = 200
           /\ resp[s].result.kind = "tool"
           /\ \E draw \in Draws : resp[s].result.text = IsoOutcome(draw)

\* C17 as amended: get_timestamp never fails because of its format: for a
\* format outside {iso, unix, locale}, or an absent one, it returns a
\* success outcome whose timestamp and raw fields are those format iso
\* yields at the same instant, and whose format field is the format as it
\* was given, iso when it was absent or empty.
C17_LenientFormatFallsBackToIso ==
    \A s \in Slots :
        (Responded(s) /\ LenientFormat(req[s]))
        => /\ resp[s].status = 200
           /\ resp[s].shape = "jsonrpc"
           /\ resp[s].code = 0
           /\ resp[s].result.kind = "tool"
           /\ resp[s].result.text.form = "timestamp"
           /\ \E draw \in Draws :
                 /\ resp[s].result.text.v[2] = IsoOutcome(draw).v[2]
                 /\ resp[s].result.text.v[3] = IsoOutcome(draw).v[3]
           /\ resp[s].result.text.v[1]
                = (IF Falsy(ToolArgs(req[s]).format) THEN Str("iso")
                   ELSE ToolArgs(req[s]).format)

\* get_timestamp was answered for the format "bogus"
C17_Witness ==
    \E s \in Slots :
        /\ Responded(s)
        /\ LenientFormat(req[s])
        /\ req[s].args.format = Str("bogus")
        /\ resp[s].result.text.v[1] = Str("bogus")
        /\ resp[s].result.text.v[2] = resp[s].result.text.v[3]


\* the listing methods of the JSON-RPC transport and the catalog each one
\* reads
ListingMethods == {Str("tools/list"), Str("prompts/list"), Str("resources/list")}

CatalogOf(method) ==
    IF method = Str("tools/list")
    THEN [NoResult EXCEPT !.kind = "tools", !.list = getTools]
    ELSE IF method = Str("prompts/list")
    THEN [NoResult EXCEPT !.kind = "prompts", !.list = getPrompts]
    ELSE [NoResult EXCEPT !.kind = "resources", !.list = getResources]

IsListing(r) == IsJsonRpc(r) /\ ~Malformed(r) /\ r.method \in ListingMethods

\* C18: whatever requests the process has served before, and whatever the
\* id, the payment header or the environment of the call, an answered
\* tools/list, prompts/list or resources/list carries the catalog as it was
\* constructed, entry for entry and field for field, and the tools listing
\* that shows prices carries the prices of the price table.
C18_ListingsAreFixed ==
    \A s \in Slots :
        Responded(s)
        => /\ IsListing(req[s])
                => /\ resp[s].status = 200
                   /\ resp[s].result = CatalogOf(req[s].method)
           /\ handler[s] = "GetSimplifiedTools"
                => \A i \in 1..Len(resp[s].result.list) :
                      resp[s].result.list[i].pricing.price
                        = pricingMap(getTools[i].name).price

\* a prompts/list that carried a payment header was answered with the three
\* prompts
C18_Witness ==
    \E s \in Slots :
        /\ Responded(s)
        /\ IsListing(req[s])
        /\ req[s].method = Str("prompts/list")
        /\ req[s].xPayment /= Undef
        /\ Len(resp[s].result.list) = 3
        /\ resp[s].result.list[1].arguments[1].name = "name"


\* the entries the JSON-RPC method of a REST listing path returns
JsonRpcListing(r) ==
    IF r.path = "/mcp/tools" THEN McpToolsList(r).resp.result.list
    ELSE IF r.path = "/mcp/prompts" THEN McpPromptsList(r).resp.result.list
    ELSE McpResourcesList(r).resp.result.list

IsRestListing(r) ==
    r.verb = "GET" /\ r.path \in {"/mcp/tools", "/mcp/prompts", "/mcp/resources"}

\* C19: the entries a REST listing route (GET /mcp/tools, /mcp/prompts,
\* /mcp/resources) returns equal, entry for entry and field for field, the
\* entries the JSON-RPC method of the same catalog returns.
C19_ListingSameOnEveryTransport ==
    \A s \in Slots :
        (Responded(s) /\ IsRestListing(req[s]))
        => /\ resp[s].status = 200
           /\ resp[s].result.list = JsonRpcListing(req[s])


\* the response the POST route of the same file gives to the parameter
\* values of a GET request, with the same random draw
PostAnswer(by, r, draw) ==
    LET out == IF by = "GetCalculate" THEN PostCalculate(r, draw)
               ELSE IF by = "AppGetCalculate" THEN AppPostCalculate(r, draw)
               ELSE IF by = "GetWeather" THEN PostWeather(r, draw)
               ELSE AppPostWeather(r, draw)
    IN IF out.pc = "responded" THEN out.resp
       ELSE IF by \in {"GetCalculate", "GetWeather"} THEN RestResume(r, out.promise)
       ELSE AppResume(r, out.promise)

\* accepted or rejected alike, and the same payload when accepted
Alike(x, y) ==
    /\ x.status = y.status
    /\ x.status = 200
         => /\ x.success = y.success
            /\ x.value = y.value
            /\ x.result = y.result

\* C20: a GET of /mcp/calculate or /mcp/weather with its parameters in the
\* query string is accepted or rejected as the POST of the same route with
\* the same parameter values in the body is, and when accepted it carries
\* the same success payload.
C20_GetAndPostAlike ==
    \A s \in Slots :
        (/\ Responded(s)
         /\ handler[s] \in {"GetCalculate", "AppGetCalculate",
                            "GetWeather", "AppGetWeather"})
        => \E draw \in Draws : Alike(resp[s], PostAnswer(handler[s], req[s], draw))


\* the REST tool routes and the required parameters of the tool of each,
\* as the catalog declares them
IsRestTool(r) == r.path \in {"/mcp/calculate", "/mcp/weather"}

RequiredOf(r) ==
    IF r.path = "/mcp/calculate" THEN getTools[1].inputSchema.required
    ELSE getTools[2].inputSchema.required

ArgOf(r, key) ==
    CASE key = "operation" -> r.args.operation
      [] key = "a" -> r.args.a
      [] key = "b" -> r.args.b
      [] key = "location" -> r.args.location

MissesRequired(r) ==
    \E i \in 1..Len(RequiredOf(r)) : ArgOf(r, RequiredOf(r)[i]) = Undef

\* C21: a GET or POST of /mcp/calculate or /mcp/weather that misses a
\* required parameter is answered with a 400 whose body lists the names of
\* the required parameters of the route and carries an example of a valid
\* call.
C21_MissingParameterBody ==
    \A s \in Slots :
        (Responded(s) /\ IsRestTool(req[s]) /\ MissesRequired(req[s]))
        => /\ resp[s].status = 400
           /\ resp[s].required = RequiredOf(req[s])
           /\ resp[s].example


\* the three outcomes of a request, as a response shows them
IsSuccess(x) ==
    /\ x.status = 200
    /\ x.success \/ x.result.kind /= "none" \/ x.value /= NoText

IsFailure(x) ==
    /\ x.status \in {400, 404, 500, 501}
    /\ x.error /= "" \/ x.code /= 0

IsPaymentRequired(x) == x.status = 402 /\ x.challenge.present

Count(seq, x) == Cardinality({i \in 1..Len(seq) : seq[i] = x})

OneOutcome(s) ==
    /\ Count(trace[s], "Rendered") = 1
    /\ Cardinality({o \in {"Success", "Failure", "PaymentRequired"} :
          \/ o = "Success" /\ IsSuccess(resp[s])
          \/ o = "Failure" /\ IsFailure(resp[s])
          \/ o = "PaymentRequired" /\ IsPaymentRequired(resp[s])}) = 1

\* C22: a request that has been answered went through Rendered exactly
\* once and carries exactly one of the outcomes Success, Failure and
\* PaymentRequired.
C22_EveryRequestRenderedOnce ==
    \A s \in Slots : Responded(s) => OneOutcome(s)


\* the failures a handler can run into: the promise of callTool rejects,
\* the destructuring of params throws, JSON.parse of the tool text throws
Rejected(p) == ~p.ok /\ p.err /= ""

ThrowsOnParams(r) ==
    /\ IsJsonRpc(r) /\ ValidVersion(r.jsonrpc)
    /\ r.method = Str("tools/call") /\ r.params.t /= "object"

ThrowsOnParse(s) ==
    /\ handler[s] \in {"GetCalculate", "PostCalculate", "GetWeather", "PostWeather"}
    /\ promise[s].ok /\ ~JsonParse(promise[s].text).ok

\* the handlers that do not await the promise they create
Unawaited == {"AppGetCalculate"}

\* C23: a failure raised while a request is handled is answered by the
\* handler itself with a failure response that carries the message of the
\* failure: a rejected tool call and a failed JSON.parse with a 400, a
\* throwing destructuring of params with 500 / -32603 and the message as
\* data; and no promise that is not awaited is ever rejected.
C23_FailuresAreCaught ==
    \A s \in Slots :
        /\ (Responded(s) /\ handler[s] \notin Unawaited /\ Rejected(promise[s]))
             => /\ IsFailure(resp[s])
                /\ resp[s].message = promise[s].err
        /\ (Responded(s) /\ ThrowsOnParse(s))
             => /\ IsFailure(resp[s])
                /\ resp[s].message = JsonParse(promise[s].text).err
        /\ (Responded(s) /\ handler[s] = "PostMcp" /\ ThrowsOnParams(req[s]))
             => /\ resp[s].status = 500
                /\ resp[s].shape = "jsonrpc"
                /\ resp[s].code = -32603
                /\ resp[s].data /= ""
        /\ handler[s] \in Unawaited => ~Rejected(promise[s])

\* a tools/call of an unknown tool was answered after its promise rejected
C23_Witness ==
    \E s \in Slots :
        /\ Responded(s)
        /\ handler[s] = "PostMcp"
        /\ Rejected(promise[s])
        /\ resp[s].status = 400
        /\ resp[s].message = promise[s].err


\* what the handler `by` does with request r when the request is processed
\* alone: its step up to the response or the await, then its continuation
Entered(by, r, e, draw) ==
    CASE by = "PostMcp" -> PostMcp(r, draw)
      [] by = "PostInitialize" -> PostInitialize(r)
      [] by = "GetCalculate" -> GetCalculate(r, draw)
      [] by = "PostCalculate" -> PostCalculate(r, draw)
      [] by = "GetWeather" -> GetWeather(r, draw)
      [] by = "PostWeather" -> PostWeather(r, draw)
      [] by = "AppGetCalculate" -> AppGetCalculate(r, draw)
      [] by = "AppPostCalculate" -> AppPostCalculate(r, draw)
      [] by = "AppGetWeather" -> AppGetWeather(r, draw)
      [] by = "AppPostWeather" -> AppPostWeather(r, draw)
      [] by = "ProtectedCall" -> ProtectedCall(r, e)
      [] by = "VerifyPayment" -> VerifyPayment(r)
      [] by = "DocsGetCalculate" -> DocsGetCalculate(r, e)
      [] by = "ListTools" -> ListTools(r)
      [] by = "ListPrompts" -> ListPrompts(r)
      [] by = "ListResources" -> ListResources(r)
      [] by = "GetSimplifiedTools" -> GetSimplifiedTools(r)
      [] by = "GetSimplifiedPrompts" -> GetSimplifiedPrompts(r)
      [] by = "GetSimplifiedResources" -> GetSimplifiedResources(r)
      [] by = "EchoRoute" -> EchoRoute(r, draw)

Alone(by, r, e, draw) ==
    LET out == Entered(by, r, e, draw)
    IN IF out.pc = "responded" THEN out.resp
       ELSE IF by = "PostMcp" THEN PostMcpResume(r, out.promise)
       ELSE IF by = "EchoRoute" THEN EchoRouteResume(r, out.promise)
       ELSE IF by \in {"GetCalculate", "PostCalculate", "GetWeather", "PostWeather"}
       THEN RestResume(r, out.promise)
       ELSE AppResume(r, out.promise)

\* C24: whatever other requests are processed meanwhile, and however their
\* steps interleave with its own, an answered request carries the response
\* its handler gives to it when it is processed alone (for the random draw
\* and the clock its tool call observed).
C24_RequestsAreIndependent ==
    \A s \in Slots :
        Responded(s)
        => \E draw \in Draws : resp[s] = Alone(handler[s], req[s], env, draw)

\* a calculation was answered through its continuation while another request
\* was waiting for its own tool call
C24_Witness ==
    \E s \in Slots :
        /\ Responded(s)
        /\ handler[s] = "PostCalculate"
        /\ resp[s].status = 200
        /\ \E o \in Slots \ {s} : pc[o] = "awaiting" /\ req[o] /= req[s]


\* C25: a well-formed request to a priced route is answered with 402
\* exactly when it carries no payment proof header.
C25_ChallengeIffNoProof ==
    \A s \in Slots :
        (Responded(s) /\ Priced(req[s]) /\ ~Malformed(req[s]))
        => (resp[s].status = 402 <=> req[s].xPayment = Undef)


\* the fields of a weather reading, in the order handleWeather writes them
Reading(text) ==
    [location |-> text.v[1], temperature |-> text.v[2], unit |-> text.v[3],
     condition |-> text.v[4], humidity |-> text.v[5], wind_speed |-> text.v[6]]

IsWeatherCall(r) == IsToolsCall(r) /\ r.name = Str("get_weather")

InRange(v, lo, hi) == v.t = "number" /\ v.d = 1 /\ v.n \in lo..hi

\* C26: every reading of get_weather has a base temperature c, an integer in
\* 10..39: the reported temperature is c with the label of Celsius when unit
\* is not "fahrenheit", and 1.8 * c + 32 with the label of Fahrenheit exactly
\* when it is; the condition is one of the five, the humidity is in 40..99
\* and the wind speed in 5..24.
C26_WeatherRanges ==
    \A s \in Slots :
        (Responded(s) /\ IsWeatherCall(req[s]))
        => LET w == Reading(resp[s].result.text)
               fahrenheit == req[s].args.unit = Str("fahrenheit")
           IN /\ resp[s].status = 200
              /\ \E c \in 10..39 :
                    w.temperature = IF fahrenheit THEN Ratio(9 * c + 160, 5) ELSE Num(c)
              /\ w.unit = Str(IF fahrenheit THEN "°F" ELSE "°C")
              /\ w.condition \in {Str(conditions[i]) : i \in 1..Len(conditions)}
              /\ InRange(w.humidity, 40, 99)
              /\ InRange(w.wind_speed, 5, 24)

\* a reading in Fahrenheit whose base temperature is the highest one, 39
C26_Witness ==
    \E s \in Slots :
        /\ Responded(s) /\ IsWeatherCall(req[s])
        /\ req[s].args.unit = Str("fahrenheit")
        /\ Reading(resp[s].result.text).temperature = Ratio(511, 5)
        /\ Reading(resp[s].result.text).unit = Str("°F")


\* the endpoints GET /mcp/tools advertises with a price, and the routes the
\* price table has an entry for (the advertised ones and the JSON-RPC route)
AdvertisedEndpoints == {simplifiedTools[i].endpoint : i \in 1..Len(simplifiedTools)}

PriceEntries ==
    {PAYMENT_CONFIG.calculate, PAYMENT_CONFIG.weather, PAYMENT_CONFIG.echo,
     PAYMENT_CONFIG.timestamp}

HasPriceEntry(r) == r.path \in AdvertisedEndpoints \/ IsJsonRpc(r)

\* the routes that exist to demonstrate the payment flow
IsPaymentDemo(r) == r.path \in {"/test/protected-call", "/api/calculate"}

\* C27: every tool GET /mcp/tools advertises with a price has that price in
\* the price table and, for calculate and get_weather, a route at its
\* endpoint that enforces it (a well-formed request without a proof is
\* answered with 402), and a route
\* without an entry in the price table (the routes that demonstrate the
\* payment flow aside) is never answered with 402.
C27_AdvertisedPricesAreEnforced ==
    \A s \in Slots :
        Responded(s)
        => /\ handler[s] = "GetSimplifiedTools"
                => \A i \in 1..Len(resp[s].result.list) :
                      resp[s].result.list[i].pricing.price \in PriceEntries
           /\ (/\ req[s].path \in AdvertisedEndpoints
               /\ IsRestTool(req[s])
               /\ ~Malformed(req[s])
               /\ Falsy(req[s].xPayment))
                => resp[s].status = 402
           /\ (~HasPriceEntry(req[s]) /\ ~IsPaymentDemo(req[s]))
                => resp[s].status /= 402


\* an operand that is present but is not a number: a query-string value
\* that is not a numeric literal on GET, a JSON value that is not a number on
\* POST
MalformedOperand(r, v) ==
    IF r.verb = "GET"
    THEN v.t = "string" /\ v.s /= "" /\ ToNumber(v).t = "NaN"
    ELSE v.t \notin {"number", "undefined"}

\* C28: a call of router.get or router.post of /calculate with a known
\* operation whose a or b is present but malformed is answered with 400,
\* never with a 200 payload.
C28_MalformedOperandIsRejected ==
    \A s \in Slots :
        (/\ Responded(s)
         /\ handler[s] \in {"GetCalculate", "PostCalculate"}
         /\ req[s].args.operation \in {Str("add"), Str("subtract"), Str("multiply"),
                                       Str("divide")}
         /\ req[s].args.a /= Undef /\ req[s].args.b /= Undef
         /\ \/ MalformedOperand(req[s], req[s].args.a)
            \/ MalformedOperand(req[s], req[s].args.b))
        => resp[s].status = 400

(***************************************************************************)
(* MCPServer.setupHandlers : the handlers registered with the SDK server,  *)
(* which serve the messages of the SSE transport.  Each returns the result *)
(* of its message.                                                         *)
(***************************************************************************)
\* setRequestHandler(ListToolsRequestSchema, ...): the tools it returns
ListToolsHandler ==
    <<[name |-> "calculate",
       description |-> "Perform basic mathematical calculations (add, subtract, multiply, divide)",
       inputSchema |->
         [type |-> "object",
          properties |->
            <<[name |-> "operation", type |-> "string",
               enum |-> <<"add", "subtract", "multiply", "divide">>,
               description |-> "The mathematical operation to perform"],
              [name |-> "a", type |-> "number", enum |-> <<>>,
               description |-> "First number"],
              [name |-> "b", type |-> "number", enum |-> <<>>,
               description |-> "Second number"]>>,
          required |-> <<"operation", "a", "b">>]],
      [name |-> "get_weather",
       description |-> "Get mock weather information for a location",
       inputSchema |->
         [type |-> "object",
          properties |->
            <<[name |-> "location", type |-> "string", enum |-> <<>>,
               description |-> "City name or coordinates"],
              [name |-> "unit", type |-> "string",
               enum |-> <<"celsius", "fahrenheit">>,
               description |-> "Temperature unit"]>>,
          required |-> <<"location">>]],
      [name |-> "echo",
       description |-> "Echo back the input message",
       inputSchema |->
         [type |-> "object",
          properties |->
            <<[name |-> "message", type |-> "string", enum |-> <<>>,
               description |-> "Message to echo back"]>>,
          required |-> <<"message">>]],
      [name |-> "get_timestamp",
       description |-> "Get current timestamp in various formats",
       inputSchema |->
         [type |-> "object",
          properties |->
            <<[name |-> "format", type |-> "string",
               enum |-> <<"iso", "unix", "locale">>,
               description |-> "Timestamp format"]>>,
          required |-> <<>>]]>>

\* setRequestHandler(ListPromptsRequestSchema, ...): the prompts it returns
ListPromptsHandler ==
    <<[name |-> "greeting",
       description |-> "Generate a friendly greeting message",
       arguments |->
         <<[name |-> "name", description |-> "Name of the person to greet",
            required |-> TRUE],
           [name |-> "time_of_day",
            description |-> "Time of day (morning, afternoon, evening)",
            required |-> FALSE]>>],
      [name |-> "code_review",
       description |-> "Generate a code review prompt template",
       arguments |->
         <<[name |-> "language", description |-> "Programming language",
            required |-> TRUE],
           [name |-> "complexity",
            description |-> "Code complexity level (low, medium, high)",
            required |-> FALSE]>>],
      [name |-> "debug_assistant",
       description |-> "Generate a debugging assistance prompt",
       arguments |->
         <<[name |-> "error_type",
            description |-> "Type of error (syntax, runtime, logical)",
            required |-> TRUE]>>]>>

\* setRequestHandler(ListResourcesRequestSchema, ...): the resources it
\* returns
ListResourcesHandler_Stale ==
    [i \in 1..3 |-> getResources[i]]

ListResourcesHandler ==
    <<[uri |-> "fluidsdk://config", name |-> "Server Configuration",
       description |-> "Current MCP server configuration",
       mimeType |-> "application/json"],
      [uri |-> "fluidsdk://status", name |-> "Server Status",
       description |-> "Real-time server health and metrics",
       mimeType |-> "application/json"],
      [uri |-> "fluidsdk://docs/api", name |-> "API Documentation",
       description |-> "FluidSDK API reference",
       mimeType |-> "text/markdown"],
      [uri |-> "fluidsdk://docs/quickstart", name |-> "Quick Start Guide",
       description |-> "Getting started with FluidSDK",
       mimeType |-> "text/markdown"]>>

\* setRequestHandler(CallToolRequestSchema, ...): the promise the async
\* handler returns for the message's name and arguments.  A handler that is
\* handed undefined for its arguments throws on reading them.
CallToolHandler_Fallback(name, arguments, args, draw) ==
    IF arguments.t = "object"
    THEN [ok |-> TRUE, ran |-> "handleEcho", text |-> handleEcho(args), err |-> ""]
    ELSE [ok |-> FALSE, ran |-> "handleEcho", text |-> NoText,
          err |-> "Cannot read properties of undefined"]

CallToolHandler(name, arguments, args, draw) ==
    LET Run(ran, text) ==
            IF arguments.t = "object"
            THEN [ok |-> TRUE, ran |-> ran, text |-> text, err |-> ""]
            ELSE [ok |-> FALSE, ran |-> ran, text |-> NoText,
                  err |-> "Cannot read properties of undefined"]
    IN IF StrictEq(name, Str("calculate"))
       THEN Run("handleCalculate", handleCalculate(args))
       ELSE IF StrictEq(name, Str("get_weather"))
       THEN Run("handleWeather", handleWeather(args, draw))
       ELSE IF StrictEq(name, Str("echo"))
       THEN Run("handleEcho", handleEcho(args))
       ELSE IF StrictEq(name, Str("get_timestamp"))
       THEN Run("handleTimestamp", handleTimestamp(args, draw))
       ELSE [ok |-> TRUE, ran |-> "none",
             text |-> [form |-> "error", s |-> "Error: Unknown tool " \o ToStr(name),
                       v |-> <<>>],
             err |-> ""]

\* what the SDK server is handed for a message once its handler's promise
\* has settled: the result, or the error the handler threw
SdkResume(settled) ==
    IF settled.ok
    THEN [NoResponse EXCEPT !.shape = "sdk",
                            !.result = [NoResult EXCEPT !.kind = "tool",
                                                        !.text = settled.text]]
    ELSE [NoResponse EXCEPT !.shape = "sdk", !.error = settled.err]

SdkList(kind, list) ==
    Respond(<<>>, [NoResponse EXCEPT !.shape = "sdk",
                     !.result = [NoResult EXCEPT !.kind = kind, !.list = list]])

(***************************************************************************)
(* The two dispatch paths side by side: the same JSON-RPC messages sent to *)
(* POST /mcp and, over an SSE connection, to the SDK server.  The SDK      *)
(* routes a message to the handler registered for its method.              *)
(***************************************************************************)
SSE_MESSAGES == "/messages"

\* the tool names of the messages: the registered ones and others
CalledNames ==
    {Str("calculate"), Str("get_weather"), Str("echo"), Str("get_timestamp"),
     Str("nope"), Str("Calculate"), Str("echo ")}

DispatchCalls ==
    ToolCalls
      \cup
    {[name |-> n, arguments |-> Obj, args |-> [NoArgs EXCEPT !.message = Str("hi")]] :
        n \in CalledNames}
      \cup
    {[name |-> n, arguments |-> Undef, args |-> NoArgs] : n \in CalledNames}

DispatchRequests ==
    {[BaseRequest EXCEPT !.path = path, !.jsonrpc = Str("2.0"), !.method = m,
                         !.id = Num(7)] :
        path \in {"/mcp", SSE_MESSAGES}, m \in ListingMethods}
      \cup
    {[BaseRequest EXCEPT !.path = path, !.jsonrpc = Str("2.0"),
                         !.method = Str("tools/call"), !.id = Num(7),
                         !.params = Obj, !.name = c.name,
                         !.arguments = c.arguments, !.args = c.args] :
        path \in {"/mcp", SSE_MESSAGES}, c \in DispatchCalls}

ReceiveDispatch(s) ==
    /\ \A o \in Slots : pc[o] = "idle"
    /\ \E r \in DispatchRequests : Receive(s, r)

SdkRoute(s, method) ==
    pc[s] = "received" /\ req[s].path = SSE_MESSAGES /\ req[s].method = Str(method)

HandleSdkListTools(s) ==
    /\ SdkRoute(s, "tools/list")
    /\ Apply(s, "SdkListTools", SdkList("tools", ListToolsHandler))

HandleSdkListPrompts(s) ==
    /\ SdkRoute(s, "prompts/list")
    /\ Apply(s, "SdkListPrompts", SdkList("prompts", ListPromptsHandler))

HandleSdkListResources(s) ==
    /\ SdkRoute(s, "resources/list")
    /\ Apply(s, "SdkListResources", SdkList("resources", ListResourcesHandler))

HandleSdkCallTool(s) ==
    /\ SdkRoute(s, "tools/call")
    /\ \E draw \in Draws :
          Apply(s, "SdkCallTool",
                Await(<<>>, CallToolHandler(req[s].name, req[s].arguments,
                                            req[s].args, draw)))

ResumeSdk(s) ==
    /\ pc[s] = "awaiting"
    /\ handler[s] = "SdkCallTool"
    /\ Settle(s, SdkResume(promise[s]))

NextDispatch ==
    \E s \in Slots :
        \/ ReceiveDispatch(s)
        \/ HandlePostMcp(s)
        \/ ResumePostMcp(s)
        \/ HandleSdkListTools(s)
        \/ HandleSdkListPrompts(s)
        \/ HandleSdkListResources(s)
        \/ HandleSdkCallTool(s)
        \/ ResumeSdk(s)
        \/ Release(s)

SpecDispatch == Init /\ [][NextDispatch]_vars

(***************************************************************************)
(* The catalog copies                                                      *)
(***************************************************************************)
SdkLists == {"SdkListTools", "SdkListPrompts", "SdkListResources"}

\* C29: the catalog an SDK list handler returns for a tools/list,
\* prompts/list or resources/list message is, entry for entry and in the
\* same order, the catalog that getTools(), getPrompts() and getResources()
\* return, and so the one the JSON-RPC endpoint answers the same message
\* with.
C29_CatalogCopiesAgree ==
    \A s \in Slots :
        (Responded(s) /\ handler[s] \in SdkLists)
        => /\ resp[s].result = CatalogOf(req[s].method)
           /\ \A draw \in Draws :
                 resp[s].result
                   = PostMcp([req[s] EXCEPT !.path = "/mcp"], draw).resp.result

\* the SDK resources handler has answered with the four resources
C29_Witness ==
    \E s \in Slots :
        /\ Responded(s)
        /\ handler[s] = "SdkListResources"
        /\ Len(resp[s].result.list) = 4
        /\ resp[s].result.list[4].uri = "fluidsdk://docs/quickstart"

(***************************************************************************)
(* Dispatch by tool name                                                   *)
(***************************************************************************)
Dispatched(s) ==
    /\ pc[s] \in {"awaiting", "responded"}
    /\ handler[s] \in {"PostMcp", "SdkCallTool"}
    /\ req[s].method = Str("tools/call")

\* the handler a registered name stands for
HandlerOf(name) ==
    CASE name = Str("calculate") -> "handleCalculate"
      [] name = Str("get_weather") -> "handleWeather"
      [] name = Str("echo") -> "handleEcho"
      [] name = Str("get_timestamp") -> "handleTimestamp"

\* C30: a tools/call whose name is none of calculate, get_weather, echo and
\* get_timestamp executes no tool handler on either path: callTool rejects
\* with "Unknown tool: <name>" and the SDK handler fulfils with the text
\* "Error: Unknown tool <name>".  For a registered name either path runs the
\* handler of that name, and given the same arguments object the SDK
\* handler's promise is the one callTool returns.
C30_UnknownToolRunsNoHandler ==
    \A s \in Slots :
        Dispatched(s) =>
           IF req[s].name \in RegisteredTools
           THEN /\ promise[s].ran = HandlerOf(req[s].name)
                /\ Occurs(trace[s], "Executed")
                /\ (handler[s] = "SdkCallTool" /\ req[s].arguments.t = "object")
                   => \E draw \in Draws :
                         promise[s] = callTool(req[s].name, req[s].args, draw)
           ELSE /\ promise[s].ran = "none"
                /\ ~Occurs(trace[s], "Executed")
                /\ handler[s] = "PostMcp"
                   => /\ Rejected(promise[s])
                      /\ promise[s].err = "Unknown tool: " \o ToStr(req[s].name)
                /\ handler[s] = "SdkCallTool"
                   => /\ promise[s].ok
                      /\ promise[s].text.s = "Error: Unknown tool " \o ToStr(req[s].name)

\* the SDK handler has answered a call of a tool that is not registered
C30_Witness ==
    \E s \in Slots :
        /\ Dispatched(s)
        /\ handler[s] = "SdkCallTool"
        /\ req[s].name = Str("nope")
        /\ Responded(s)
        /\ resp[s].result.text.s = "Error: Unknown tool nope"

====
